---- MODULE Spec2Model ----
(***************************************************************************)
(* Lucidis backend: the conversation lifecycle state machine               *)
(* (services/conversationState.service.js, services/inbox.service.js) and  *)
(* the tenant resolution and role check of a request                       *)
(* (middleware/tenant.middleware.js, held in routes/account.routes.js).    *)
(*                                                                         *)
(* Every await of a service method is a scheduling point: a method is a    *)
(* sequence of actions, one per awaited store or cache operation, and the  *)
(* calls of different processes interleave at those points.                *)
(***************************************************************************)
EXTENDS Integers, Sequences, FiniteSets, TLC

NULL == "null"

\* null or undefined where the value, when set, is an object.
None == [null |-> TRUE]

(* ------------------------------ bounds -------------------------------- *)

\* Service calls started in one behaviour.
MaxOps == 3

\* Callers that may have a service call in flight at the same time.
Procs == {"p1", "p2"}

(* ------------------------- the stored entities ------------------------ *)

Accounts == {"a1", "a2"}
Workspaces == {"w1", "w2"}
ConversationIds == {"c1"}

\* Workspace.accountId: the containment edge read from the workspace row.
WorkspaceAccount == [w \in Workspaces |-> IF w = "w1" THEN "a1" ELSE "a2"]

\* Conversation.workspaceId: the containment edge read from the conversation row.
ConversationWorkspace == [c \in ConversationIds |-> "w1"]

\* The contact of the sender and the conversation it has in each workspace.
ContactConversation == [w \in Workspaces |-> IF w = "w1" THEN "c1" ELSE NULL]

validStates == {"TODO", "ASSIGNED", "ESCALATED", "CLOSED"}

(* ------------------------- the inputs of calls ------------------------ *)

StateArgs == validStates \cup {"ARCHIVED"}
ConversationIdArgs == ConversationIds
\* The (workspaceId, accountId) scopes a caller passes: the conversation's own,
\* another tenant's, a workspace with the wrong account, and none.
ScopeArgs == {<<"w1", "a1">>, <<"w2", "a2">>, <<"w1", "a2">>, <<NULL, NULL>>}
InboundWorkspaceArgs == {"w1", "w9"}

VARIABLES
    conversation,   \* ConversationIds -> [status, statusUpdatedAt, lastMessageAt]
    statusWrites,   \* history: ConversationIds -> number of status updates so far
    messages,       \* ConversationIds -> number of inbound messages stored
    cache,          \* the redis keys that hold a value, with that value
    now,            \* the clock new Date() reads; it advances at every read
    nOps,           \* service calls started so far
    calls           \* Procs -> the call the process has in flight

convVars == <<conversation, statusWrites, messages, cache, now, nOps, calls>>

VARIABLES
    accountUser,    \* the account_users rows
    workspaceUser,  \* the workspace_users rows
    departmentUser, \* the department_users rows
    req,            \* the request: req.user, the declared ids, the route's roles
    tenant,         \* req.tenant
    res,            \* the response sent, None while none
    stage           \* the middleware the request is at

authVars == <<accountUser, workspaceUser, departmentUser, req, tenant, res, stage>>

VARIABLES
    redis,          \* the connection to the cache: "up", or "down" (every call throws)
    deptWrites,     \* history: Departments -> membership writes committed so far
    deptWriteAt,    \* history: Departments -> the clock at the last of them
    dcalls          \* Procs -> the department service call the process has in flight

sideVars == <<redis, deptWrites, deptWriteAt, dcalls>>

VARIABLES
    inboxConversations,   \* the conversation rows the inbox views query
    inboxDepartmentUsers, \* the department_users rows of the querying user
    inboxResult           \* what an inbox view returned, None before the call

inboxVars == <<inboxConversations, inboxDepartmentUsers, inboxResult>>

VARIABLES
    refreshTokens,  \* the rows of refresh_tokens and app_owner_refresh_tokens
    nextTokenId,    \* the id the next created row gets
    redeemed,       \* history: token -> refreshToken calls that returned new tokens
    tcalls          \* Procs -> the AuthService call the process has in flight

tokenVars == <<refreshTokens, nextTokenId, redeemed, tcalls>>

VARIABLES
    invitations,    \* the invitation rows, by id
    users,          \* the user rows
    memberships,    \* the rows of the four membership tables
    icalls          \* Procs -> the InvitationService call the process has in flight

inviteVars == <<invitations, users, memberships, icalls>>

VARIABLES
    contacts,          \* the contact rows
    conversationRows,  \* the conversation rows an inbound message finds or creates
    messageRows,       \* the message rows
    mcalls             \* Procs -> the inbound message call the process has in flight

msgVars == <<contacts, conversationRows, messageRows, mcalls>>

extVars == <<inboxVars, tokenVars, inviteVars, msgVars>>

vars == <<convVars, authVars, sideVars, extVars>>

(* ============================ config/redis.js ========================= *)

\* redis.setex(key, 300, value): "Cache for 5 minutes".
TTL == 300

\* redis.get(key): the value of a key that is set and has not expired.
Live(key) == key \in DOMAIN cache /\ now < cache[key].expiresAt

redisGet(key) == IF Live(key) THEN cache[key].value ELSE None

\* The cache after redis.setex(key, TTL, value). asOf is history: the number of
\* store writes the value reflects.
redisSetex(key, value, asOf) ==
    [k \in DOMAIN cache \cup {key} |->
        IF k = key
        THEN [value |-> value, expiresAt |-> now + TTL, asOf |-> asOf]
        ELSE cache[k]]

\* The cache after redis.del of each of the keys.
redisDel(keys) == [k \in (DOMAIN cache) \ keys |-> cache[k]]

(* ================= conversationState.service.js ======================= *)

\* The table with CLOSED as a terminal status, as a variant of VALID_TRANSITIONS.
VALID_TRANSITIONS_ClosedTerminal ==
    [s \in validStates |->
        CASE s = "TODO"      -> {"ASSIGNED", "ESCALATED"}
          [] s = "ASSIGNED"  -> {"CLOSED"}
          [] s = "ESCALATED" -> {"ASSIGNED"}
          [] s = "CLOSED"    -> {}]

VALID_TRANSITIONS_AssignedToTodo ==
    [s \in validStates |->
        CASE s = "TODO"      -> {"ASSIGNED", "ESCALATED"}
          [] s = "ASSIGNED"  -> {"CLOSED", "TODO"}
          [] s = "ESCALATED" -> {"ASSIGNED"}
          [] s = "CLOSED"    -> {"TODO", "ASSIGNED"}]

VALID_TRANSITIONS ==
    [s \in validStates |->
        CASE s = "TODO"      -> {"ASSIGNED", "ESCALATED"}
          [] s = "ASSIGNED"  -> {"CLOSED"}
          [] s = "ESCALATED" -> {"ASSIGNED"}
          [] s = "CLOSED"    -> {"TODO", "ASSIGNED"}]

isValidTransition(currentState, newState) ==
    IF currentState \notin DOMAIN VALID_TRANSITIONS
    THEN FALSE
    ELSE newState \in VALID_TRANSITIONS[currentState]

\* prisma.conversation.findFirst({ where: { id, workspaceId? }, include: workspace })
\* followed by the two scope checks: the row found, or the error thrown.
verifyConversationChain(conversationId, workspaceId, accountId) ==
    IF \/ conversationId \notin ConversationIds
       \/ (workspaceId # NULL /\ ConversationWorkspace[conversationId] # workspaceId)
    THEN [error |-> "Conversation not found"]
    ELSE IF accountId # NULL
            /\ WorkspaceAccount[ConversationWorkspace[conversationId]] # accountId
    THEN [error |-> "Conversation does not belong to this account"]
    ELSE [error |-> NULL,
          status |-> conversation[conversationId].status]

\* The keys _invalidateConversationStateCache deletes.
InvalidatedKeys(conversationId, workspaceId) ==
    {<<"conversation_state", conversationId>>, <<"conversation", conversationId>>}
    \cup (IF workspaceId # NULL
          THEN {<<"conversations:workspace", workspaceId>>}
               \cup {<<"conversations:workspace:status", workspaceId, s>> : s \in validStates}
          ELSE {})

\* History: what the store holds of a conversation when a call starts.
Stored(conversationId) ==
    IF conversationId \in ConversationIds
    THEN [status |-> conversation[conversationId].status,
          statusUpdatedAt |-> conversation[conversationId].statusUpdatedAt,
          writes |-> statusWrites[conversationId]]
    ELSE None

\* History: the status updates of the conversation a call had seen when it read it.
Seen(call) ==
    IF call.nested THEN call.seen ELSE statusWrites[call.conversationId]

Idle ==
    [op |-> NULL, pc |-> "idle", conversationId |-> NULL, newState |-> NULL,
     workspaceId |-> NULL, accountId |-> NULL, atCall |-> None, found |-> None,
     current |-> NULL, seen |-> 0, wrote |-> FALSE, nested |-> FALSE,
     userId |-> NULL, cacheError |-> FALSE, value |-> None, result |-> NULL]

\* A throw out of setConversationState: to the caller, or into the catch of
\* _normalizeConversationStateForInboundMessage when the call is the nested one.
Thrown(call, error) ==
    IF call.nested
    THEN [call EXCEPT !.pc = "touch"]
    ELSE [call EXCEPT !.pc = "done", !.result = error]

\* The call that resolves the conversation before it looks at newState, as a
\* variant of SetConversationState.
SetConversationState_VerifyFirst(p, conversationId, newState, workspaceId, accountId) ==
    /\ calls[p].pc = "idle"
    /\ nOps < MaxOps
    /\ nOps' = nOps + 1
    /\ calls' = [calls EXCEPT ![p] =
            [Idle EXCEPT !.op = "setConversationState",
                         !.pc = "verify",
                         !.conversationId = conversationId,
                         !.newState = newState,
                         !.workspaceId = workspaceId,
                         !.accountId = accountId,
                         !.atCall = Stored(conversationId)]]
    /\ UNCHANGED <<conversation, statusWrites, messages, cache, now, authVars, sideVars, extVars>>

\* setConversationState up to its first await: the check of newState.
SetConversationState(p, conversationId, newState, workspaceId, accountId) ==
    /\ calls[p].pc = "idle"
    /\ nOps < MaxOps
    /\ nOps' = nOps + 1
    /\ LET call == [Idle EXCEPT !.op = "setConversationState",
                                !.conversationId = conversationId,
                                !.newState = newState,
                                !.workspaceId = workspaceId,
                                !.accountId = accountId,
                                !.atCall = Stored(conversationId)]
       IN calls' = [calls EXCEPT ![p] =
                IF newState \notin validStates
                THEN Thrown(call, "Invalid state")
                ELSE [call EXCEPT !.pc = "verify"]]
    /\ UNCHANGED <<conversation, statusWrites, messages, cache, now, authVars, sideVars, extVars>>

\* return this.setConversationState(conversationId, 'ASSIGNED', workspaceId, accountId)
markAsAssigned(p, conversationId, workspaceId, accountId) ==
    SetConversationState(p, conversationId, "ASSIGNED", workspaceId, accountId)

markAsEscalated(p, conversationId, workspaceId, accountId) ==
    SetConversationState(p, conversationId, "ESCALATED", workspaceId, accountId)

markAsClosed(p, conversationId, workspaceId, accountId) ==
    SetConversationState(p, conversationId, "CLOSED", workspaceId, accountId)

markAsTodo(p, conversationId, workspaceId, accountId) ==
    SetConversationState(p, conversationId, "TODO", workspaceId, accountId)

\* The update made before the transition check, as a variant of SetVerify: a
\* refused call has already written its target.
SetVerify_UpdateFirst(p) ==
    /\ calls[p].pc = "verify"
    /\ LET call == calls[p]
           row == verifyConversationChain(call.conversationId, call.workspaceId,
                                          call.accountId)
       IN IF row.error # NULL
          THEN /\ calls' = [calls EXCEPT ![p] = Thrown(call, row.error)]
               /\ UNCHANGED <<conversation, statusWrites, now>>
          ELSE /\ conversation' = [conversation EXCEPT
                        ![call.conversationId].status = call.newState,
                        ![call.conversationId].statusUpdatedAt = now + 1]
               /\ statusWrites' = [statusWrites EXCEPT ![call.conversationId] = @ + 1]
               /\ now' = now + 1
               /\ calls' = [calls EXCEPT ![p] =
                    IF ~isValidTransition(row.status, call.newState)
                    THEN Thrown([call EXCEPT !.current = row.status,
                                             !.seen = Seen(call)],
                                "Invalid state transition")
                    ELSE [call EXCEPT !.pc = "invalidate", !.current = row.status,
                                      !.seen = Seen(call), !.wrote = TRUE]]
    /\ UNCHANGED <<messages, cache, nOps, authVars, sideVars, extVars>>

\* await _verifyConversationChain, then the transition check on the row it read.
SetVerify(p) ==
    /\ calls[p].pc = "verify"
    /\ LET call == calls[p]
           row == verifyConversationChain(call.conversationId, call.workspaceId,
                                          call.accountId)
       IN calls' = [calls EXCEPT ![p] =
                IF row.error # NULL
                THEN Thrown(call, row.error)
                ELSE IF ~isValidTransition(row.status, call.newState)
                THEN Thrown([call EXCEPT !.current = row.status,
                                         !.seen = Seen(call)],
                            "Invalid state transition")
                ELSE [call EXCEPT !.pc = "update", !.current = row.status,
                                  !.seen = Seen(call)]]
    /\ UNCHANGED <<conversation, statusWrites, messages, cache, now, nOps, authVars, sideVars, extVars>>

\* The update made conditional on the status the call read, as a variant of
\* SetUpdate: a lost race ends the call with ConcurrentModification.
SetUpdate_Conditional(p) ==
    /\ calls[p].pc = "update"
    /\ LET call == calls[p]
           c == call.conversationId
       IN IF conversation[c].status = call.current
          THEN /\ conversation' = [conversation EXCEPT ![c].status = call.newState,
                                                       ![c].statusUpdatedAt = now + 1]
               /\ statusWrites' = [statusWrites EXCEPT ![c] = @ + 1]
               /\ now' = now + 1
               /\ calls' = [calls EXCEPT ![p].pc = "invalidate", ![p].wrote = TRUE]
          ELSE /\ calls' = [calls EXCEPT ![p] = Thrown(call, "ConcurrentModification")]
               /\ UNCHANGED <<conversation, statusWrites, now>>
    /\ UNCHANGED <<messages, cache, nOps, authVars, sideVars, extVars>>

\* The update that also drops the assignee when the conversation leaves the
\* agent's hands, as a variant of SetUpdate.
SetUpdate_ClearsAssignee(p) ==
    /\ calls[p].pc = "update"
    /\ LET call == calls[p]
           c == call.conversationId
           released == call.newState \in {"TODO", "CLOSED"}
       IN /\ conversation' = [conversation EXCEPT
                ![c].status = call.newState,
                ![c].statusUpdatedAt = now + 1,
                ![c].assignedUserId = IF released THEN NULL ELSE @,
                ![c].assignedAt = IF released THEN NULL ELSE @]
          /\ statusWrites' = [statusWrites EXCEPT ![c] = @ + 1]
          /\ now' = now + 1
          /\ calls' = [calls EXCEPT ![p].pc = "invalidate", ![p].wrote = TRUE]
    /\ UNCHANGED <<messages, cache, nOps, authVars, sideVars, extVars>>

\* await prisma.conversation.update({ where: { id }, data: { status, statusUpdatedAt } })
SetUpdate(p) ==
    /\ calls[p].pc = "update"
    /\ LET call == calls[p]
           c == call.conversationId
       IN /\ conversation' = [conversation EXCEPT ![c].status = call.newState,
                                                  ![c].statusUpdatedAt = now + 1]
          /\ statusWrites' = [statusWrites EXCEPT ![c] = @ + 1]
          /\ now' = now + 1
          /\ calls' = [calls EXCEPT ![p].pc = "invalidate", ![p].wrote = TRUE]
    /\ UNCHANGED <<messages, cache, nOps, authVars, sideVars, extVars>>

\* await _invalidateConversationStateCache, then the return of the updated row.
\* A throw of redis.del is caught and logged inside the helper.
SetInvalidate(p) ==
    /\ calls[p].pc = "invalidate"
    /\ LET call == calls[p]
           gone == InvalidatedKeys(call.conversationId, call.workspaceId)
       IN /\ cache' = IF redis = "up" THEN redisDel(gone) ELSE cache
          /\ calls' = [calls EXCEPT ![p] =
                IF call.nested
                THEN [call EXCEPT !.pc = "touch", !.cacheError = (redis = "down")]
                ELSE [call EXCEPT !.pc = "done", !.result = "ok",
                                  !.cacheError = (redis = "down")]]
    /\ UNCHANGED <<conversation, statusWrites, messages, now, nOps, authVars, sideVars, extVars>>

\* The caller has the result of its call and may start another.
Return(p) ==
    /\ calls[p].pc = "done"
    /\ calls' = [calls EXCEPT ![p] = Idle]
    /\ UNCHANGED <<conversation, statusWrites, messages, cache, now, nOps, authVars, sideVars, extVars>>

\* getConversationState up to the answer of _verifyConversationChain.
GetConversationState(p, conversationId, workspaceId, accountId) ==
    /\ calls[p].pc = "idle"
    /\ nOps < MaxOps
    /\ nOps' = nOps + 1
    /\ LET call == [Idle EXCEPT !.op = "getConversationState",
                                !.conversationId = conversationId,
                                !.workspaceId = workspaceId,
                                !.accountId = accountId]
           row == verifyConversationChain(conversationId, workspaceId, accountId)
       IN calls' = [calls EXCEPT ![p] =
                IF row.error # NULL
                THEN [call EXCEPT !.pc = "done", !.result = row.error]
                ELSE [call EXCEPT !.pc = "getCache"]]
    /\ UNCHANGED <<conversation, statusWrites, messages, cache, now, authVars, sideVars, extVars>>

\* const cached = await redis.get(`conversation_state:${conversationId}`)
GetCache(p) ==
    /\ calls[p].pc = "getCache"
    /\ LET call == calls[p]
           cached == redisGet(<<"conversation_state", call.conversationId>>)
       IN calls' = [calls EXCEPT ![p] =
                IF redis = "down"
                THEN [call EXCEPT !.pc = "done", !.cacheError = TRUE,
                                  !.result = "redis error"]
                ELSE IF cached # None
                THEN [call EXCEPT !.pc = "done", !.result = "ok", !.value = cached]
                ELSE [call EXCEPT !.pc = "getStore"]]
    /\ UNCHANGED <<conversation, statusWrites, messages, cache, now, nOps, authVars, sideVars, extVars>>

\* await prisma.conversation.findUnique({ select: { status, statusUpdatedAt } })
GetStore(p) ==
    /\ calls[p].pc = "getStore"
    /\ LET c == calls[p].conversationId
       IN calls' = [calls EXCEPT
                ![p].pc = "getSetex",
                ![p].found = [status |-> conversation[c].status,
                              statusUpdatedAt |-> conversation[c].statusUpdatedAt],
                ![p].seen = statusWrites[c]]
    /\ UNCHANGED <<conversation, statusWrites, messages, cache, now, nOps, authVars, sideVars, extVars>>

\* await redis.setex(cacheKey, 300, JSON.stringify(state)), then return state.
GetSetex(p) ==
    /\ calls[p].pc = "getSetex"
    /\ LET call == calls[p]
       IN IF redis = "down"
          THEN /\ cache' = cache
               /\ calls' = [calls EXCEPT ![p] =
                    [call EXCEPT !.pc = "done", !.cacheError = TRUE,
                                 !.result = "redis error"]]
          ELSE /\ cache' = redisSetex(<<"conversation_state", call.conversationId>>,
                                      call.found, call.seen)
               /\ calls' = [calls EXCEPT ![p] =
                    [call EXCEPT !.pc = "done", !.result = "ok", !.value = call.found]]
    /\ UNCHANGED <<conversation, statusWrites, messages, now, nOps, authVars, sideVars, extVars>>

(* ================= conversationAssignment.service.js ================== *)

\* The users table, and the workspace_users rows _verifyUserInWorkspace reads.
Users == {"u1", "u2"}
UserWorkspaces == [u \in Users |-> IF u = "u1" THEN {"w1"} ELSE {"w2"}]

\* The user check without the workspace_users lookup: any user row passes.
verifyUserInWorkspace_AnyUser(userId, workspaceId) ==
    IF userId \notin Users
    THEN "User not found"
    ELSE NULL

\* _verifyUserInWorkspace(userId, workspaceId), then prisma.user.findUnique.
verifyUserInWorkspace(userId, workspaceId) ==
    IF userId \notin Users \/ workspaceId \notin UserWorkspaces[userId]
    THEN "User does not belong to this workspace"
    ELSE NULL

\* assignConversationToUser up to the update: the chain, the user's workspace
\* membership and the user row, none of which a call of the services changes.
AssignConversationToUser(p, conversationId, userId, workspaceId, accountId) ==
    /\ calls[p].pc = "idle"
    /\ nOps < MaxOps
    /\ nOps' = nOps + 1
    /\ LET call == [Idle EXCEPT !.op = "assignConversationToUser",
                                !.conversationId = conversationId,
                                !.userId = userId,
                                !.workspaceId = workspaceId,
                                !.accountId = accountId]
           row == verifyConversationChain(conversationId, workspaceId, accountId)
           user == verifyUserInWorkspace(userId, workspaceId)
       IN calls' = [calls EXCEPT ![p] =
                IF row.error # NULL
                THEN [call EXCEPT !.pc = "done", !.result = row.error]
                ELSE IF user # NULL
                THEN [call EXCEPT !.pc = "done", !.result = user]
                ELSE [call EXCEPT !.pc = "assignUpdate"]]
    /\ UNCHANGED <<conversation, statusWrites, messages, cache, now, authVars, sideVars, extVars>>

\* The assignment update that also marks the conversation ASSIGNED, as a variant
\* of AssignUpdate.
AssignUpdate_MarksAssigned(p) ==
    /\ calls[p].pc = "assignUpdate"
    /\ conversation' = [conversation EXCEPT
            ![calls[p].conversationId].assignedUserId = calls[p].userId,
            ![calls[p].conversationId].assignedAt = now + 1,
            ![calls[p].conversationId].status = "ASSIGNED",
            ![calls[p].conversationId].statusUpdatedAt = now + 1]
    /\ now' = now + 1
    /\ calls' = [calls EXCEPT ![p].pc = "assignInvalidate", ![p].wrote = TRUE]
    /\ UNCHANGED <<statusWrites, messages, cache, nOps, authVars, sideVars, extVars>>

\* await prisma.conversation.update({ data: { assignedUserId: userId,
\* assignedAt: new Date() } })
AssignUpdate(p) ==
    /\ calls[p].pc = "assignUpdate"
    /\ conversation' = [conversation EXCEPT
            ![calls[p].conversationId].assignedUserId = calls[p].userId,
            ![calls[p].conversationId].assignedAt = now + 1]
    /\ now' = now + 1
    /\ calls' = [calls EXCEPT ![p].pc = "assignInvalidate", ![p].wrote = TRUE]
    /\ UNCHANGED <<statusWrites, messages, cache, nOps, authVars, sideVars, extVars>>

\* unassignConversation up to the update.
UnassignConversation(p, conversationId, workspaceId, accountId) ==
    /\ calls[p].pc = "idle"
    /\ nOps < MaxOps
    /\ nOps' = nOps + 1
    /\ LET call == [Idle EXCEPT !.op = "unassignConversation",
                                !.conversationId = conversationId,
                                !.workspaceId = workspaceId,
                                !.accountId = accountId]
           row == verifyConversationChain(conversationId, workspaceId, accountId)
       IN calls' = [calls EXCEPT ![p] =
                IF row.error # NULL
                THEN [call EXCEPT !.pc = "done", !.result = row.error]
                ELSE [call EXCEPT !.pc = "unassignUpdate"]]
    /\ UNCHANGED <<conversation, statusWrites, messages, cache, now, authVars, sideVars, extVars>>

\* await prisma.conversation.update({ data: { assignedUserId: null, assignedAt: null } })
UnassignUpdate(p) ==
    /\ calls[p].pc = "unassignUpdate"
    /\ conversation' = [conversation EXCEPT
            ![calls[p].conversationId].assignedUserId = NULL,
            ![calls[p].conversationId].assignedAt = NULL]
    /\ calls' = [calls EXCEPT ![p].pc = "assignInvalidate", ![p].wrote = TRUE]
    /\ UNCHANGED <<statusWrites, messages, cache, now, nOps, authVars, sideVars, extVars>>

\* await _invalidateConversationCache(conversationId, workspaceId), then the
\* return of the updated row; a throw of redis.del is caught inside the helper.
InvalidateConversationCache(p) ==
    /\ calls[p].pc = "assignInvalidate"
    /\ LET call == calls[p]
           gone == {<<"conversation", call.conversationId>>,
                    <<"conversation_assigned", call.conversationId>>,
                    <<"conversation_assigned_user", call.conversationId>>,
                    <<"conversations:workspace", call.workspaceId>>}
       IN /\ cache' = IF redis = "up" THEN redisDel(gone) ELSE cache
          /\ calls' = [calls EXCEPT ![p].pc = "done", ![p].result = "ok",
                                    ![p].cacheError = (redis = "down")]
    /\ UNCHANGED <<conversation, statusWrites, messages, now, nOps, authVars, sideVars, extVars>>

\* The connection to the cache is lost, and comes back.
RedisDown ==
    /\ redis = "up"
    /\ redis' = "down"
    /\ UNCHANGED <<convVars, authVars, deptWrites, deptWriteAt, dcalls, extVars>>

RedisUp ==
    /\ redis = "down"
    /\ redis' = "up"
    /\ UNCHANGED <<convVars, authVars, deptWrites, deptWriteAt, dcalls, extVars>>

(* ======================== inbox.service.js ============================ *)

\* createInboundMessage up to the lookup of the workspace.
CreateInboundMessage(p, workspaceId) ==
    /\ calls[p].pc = "idle"
    /\ nOps < MaxOps
    /\ nOps' = nOps + 1
    /\ calls' = [calls EXCEPT ![p] =
            [Idle EXCEPT !.op = "createInboundMessage", !.pc = "find",
                         !.workspaceId = workspaceId]]
    /\ UNCHANGED <<conversation, statusWrites, messages, cache, now, authVars, sideVars, extVars>>

\* The workspace, the contact and prisma.conversation.findFirst({ where:
\* { workspaceId, contactId } }): the row comes without its workspace relation.
InboundFind(p) ==
    /\ calls[p].pc = "find"
    /\ LET call == calls[p]
       IN calls' = [calls EXCEPT ![p] =
            IF call.workspaceId \notin Workspaces
            THEN [call EXCEPT !.pc = "done", !.result = "Workspace not found"]
            ELSE LET c == ContactConversation[call.workspaceId]
                 IN [call EXCEPT !.pc = "message",
                                 !.conversationId = c,
                                 !.found = [status |-> conversation[c].status,
                                            workspace |-> None],
                                 !.seen = statusWrites[c]]]
    /\ UNCHANGED <<conversation, statusWrites, messages, cache, now, nOps, authVars, sideVars, extVars>>

\* await prisma.message.create({ data: { conversationId, ..., isInternal: false } })
InboundMessage(p) ==
    /\ calls[p].pc = "message"
    /\ messages' = [messages EXCEPT ![calls[p].conversationId] = @ + 1]
    /\ calls' = [calls EXCEPT ![p].pc = "normalize"]
    /\ UNCHANGED <<conversation, statusWrites, cache, now, nOps, authVars, sideVars, extVars>>

\* The switch of _normalizeConversationStateForInboundMessage.
targetState(status) ==
    CASE status = "CLOSED"   -> "TODO"
      [] status = "ASSIGNED" -> "TODO"
      [] OTHER               -> NULL

\* The normalization without its catch, as a variant of InboundNormalize: the
\* TypeError ends createInboundMessage.
InboundNormalize_NoCatch(p) ==
    /\ calls[p].pc = "normalize"
    /\ LET call == calls[p]
           target == targetState(call.found.status)
       IN calls' = [calls EXCEPT ![p] =
            IF target = NULL
            THEN [call EXCEPT !.pc = "touch"]
            ELSE IF call.found.workspace = None
            THEN [call EXCEPT !.pc = "done", !.result = "TypeError"]
            ELSE [call EXCEPT !.pc = "verify", !.nested = TRUE,
                              !.newState = target,
                              !.accountId = call.found.workspace.accountId]]
    /\ UNCHANGED <<conversation, statusWrites, messages, cache, now, nOps, authVars, sideVars, extVars>>

\* _normalizeConversationStateForInboundMessage(conversation, workspaceId): the
\* arguments of setConversationState are evaluated inside the try, and
\* conversation.workspace.accountId throws a TypeError when the row carries
\* no workspace relation; the catch logs it and the method returns.
InboundNormalize(p) ==
    /\ calls[p].pc = "normalize"
    /\ LET call == calls[p]
           target == targetState(call.found.status)
       IN calls' = [calls EXCEPT ![p] =
            IF target = NULL
            THEN [call EXCEPT !.pc = "touch"]
            ELSE IF call.found.workspace = None
            THEN [call EXCEPT !.pc = "touch"]
            ELSE [call EXCEPT !.pc = "verify", !.nested = TRUE,
                              !.newState = target,
                              !.accountId = call.found.workspace.accountId]]
    /\ UNCHANGED <<conversation, statusWrites, messages, cache, now, nOps, authVars, sideVars, extVars>>

\* The update that reopens the conversation by writing a status of its own, past
\* the gate, as a variant of InboundTouch.
InboundTouch_Reopens(p) ==
    /\ calls[p].pc = "touch"
    /\ conversation' = [conversation EXCEPT
            ![calls[p].conversationId].lastMessageAt = now + 1,
            ![calls[p].conversationId].status = "OPEN"]
    /\ now' = now + 1
    /\ calls' = [calls EXCEPT ![p].pc = "reload"]
    /\ UNCHANGED <<statusWrites, messages, cache, nOps, authVars, sideVars, extVars>>

\* await prisma.conversation.update({ data: { lastMessageAt: new Date() } })
InboundTouch(p) ==
    /\ calls[p].pc = "touch"
    /\ conversation' = [conversation EXCEPT
            ![calls[p].conversationId].lastMessageAt = now + 1]
    /\ now' = now + 1
    /\ calls' = [calls EXCEPT ![p].pc = "reload"]
    /\ UNCHANGED <<statusWrites, messages, cache, nOps, authVars, sideVars, extVars>>

\* The findUnique of the updated row, the two redis.del and the return; a
\* throw of redis.del is the method's.
InboundReload(p) ==
    /\ calls[p].pc = "reload"
    /\ LET call == calls[p]
           gone == {<<"conversations:workspace", call.workspaceId>>,
                    <<"conversation", call.conversationId>>}
       IN IF redis = "up"
          THEN /\ cache' = redisDel(gone)
               /\ calls' = [calls EXCEPT ![p].pc = "done", ![p].result = "ok"]
          ELSE /\ cache' = cache
               /\ calls' = [calls EXCEPT ![p].pc = "done", ![p].cacheError = TRUE,
                                         ![p].result = "redis error"]
    /\ UNCHANGED <<conversation, statusWrites, messages, now, nOps, authVars, sideVars, extVars>>

(* ============ tenant.middleware.js (in routes/account.routes.js) ====== *)

AppOwners == {"o1", "o2"}
Departments == {"d1"}
Teams == {"t1"}

\* Account.appOwnerId, Department.workspaceId, Team.departmentId.
AccountOwner == [a \in Accounts |-> IF a = "a1" THEN "o1" ELSE "o2"]
DepartmentWorkspace == [d \in Departments |-> "w1"]
TeamDepartment == [t \in Teams |-> "d1"]

UserRole ==
    [APP_OWNER |-> "APP_OWNER", ACCOUNT_ADMIN |-> "ACCOUNT_ADMIN",
     ACCOUNT_MEMBER |-> "ACCOUNT_MEMBER", WORKSPACE_ADMIN |-> "WORKSPACE_ADMIN",
     WORKSPACE_MEMBER |-> "WORKSPACE_MEMBER", TEAM_LEAD |-> "TEAM_LEAD",
     TEAM_MEMBER |-> "TEAM_MEMBER", DEPARTMENT_MANAGER |-> "DEPARTMENT_MANAGER",
     HUMAN_SUPPORT |-> "HUMAN_SUPPORT", DEPARTMENT_MEMBER |-> "MEMBER"]

\* JavaScript's a || b on identifiers: the first that is set.
Or(a, b) == IF a # NULL THEN a ELSE b

\* const tenant = {}
EmptyTenant ==
    [accountId |-> NULL, accountRole |-> NULL, workspaceId |-> NULL,
     workspaceRole |-> NULL, departmentId |-> NULL, departmentRole |-> NULL]

Response(status, error) == [status |-> status, error |-> error]

\* prisma.account.findFirst({ where: { id }}) without the appOwnerId condition.
findOwnedAccount_AnyOwner(accountId, ownerId) ==
    IF accountId \in Accounts THEN accountId ELSE NULL

\* prisma.account.findFirst({ where: { id: accountId, appOwnerId: req.user.id } })
findOwnedAccount(accountId, ownerId) ==
    IF accountId \in Accounts /\ AccountOwner[accountId] = ownerId
    THEN accountId
    ELSE NULL

\* prisma.workspace.findFirst({ where: { id: workspaceId, accountId } })
findWorkspaceOfAccount(workspaceId, accountId) ==
    IF workspaceId \in Workspaces /\ WorkspaceAccount[workspaceId] = accountId
    THEN workspaceId
    ELSE NULL

\* prisma.workspace.findUnique({ where: { id }, select: { accountId: true } })
findWorkspace(workspaceId) ==
    IF workspaceId \in Workspaces
    THEN [accountId |-> WorkspaceAccount[workspaceId]]
    ELSE None

\* findUnique on a membership table by (req.user.id, entity id).
findAccountUser(r, accountId) ==
    IF ~r.user.isAppOwner /\ accountId \in Accounts THEN accountUser[accountId] ELSE None

findWorkspaceUser(r, workspaceId) ==
    IF ~r.user.isAppOwner /\ workspaceId \in Workspaces
    THEN workspaceUser[workspaceId]
    ELSE None

findDepartmentUser(r, departmentId) ==
    IF ~r.user.isAppOwner /\ departmentId \in Departments
    THEN departmentUser[departmentId]
    ELSE None

\* The workspace part as the earlier tenantMiddleware has it: a regular user
\* without a workspace_users row is refused.
tenantWorkspace_MembershipRequired(r, t, workspaceId) ==
    IF workspaceId = NULL
    THEN [tenant |-> t, res |-> None]
    ELSE LET tw == [t EXCEPT !.workspaceId = workspaceId] IN
         IF r.user.isAppOwner
         THEN IF findWorkspaceOfAccount(workspaceId, t.accountId) = NULL
              THEN [tenant |-> None,
                    res |-> Response(403,
                        "Workspace not found or does not belong to this account")]
              ELSE [tenant |-> [tw EXCEPT !.workspaceRole = "ADMIN"], res |-> None]
         ELSE LET wu == findWorkspaceUser(r, workspaceId) IN
              IF wu = None \/ WorkspaceAccount[workspaceId] # t.accountId
              THEN [tenant |-> None,
                    res |-> Response(403, "Access denied to this workspace")]
              ELSE [tenant |-> [tw EXCEPT !.workspaceRole = wu.role], res |-> None]

\* The workspace part of tenantMiddleware, entered with the account part done.
tenantWorkspace(r, t, workspaceId) ==
    IF workspaceId = NULL
    THEN [tenant |-> t, res |-> None]
    ELSE LET tw == [t EXCEPT !.workspaceId = workspaceId] IN
         IF r.user.isAppOwner
         THEN IF findWorkspaceOfAccount(workspaceId, t.accountId) = NULL
              THEN [tenant |-> None,
                    res |-> Response(403,
                        "Workspace not found or does not belong to this account")]
              ELSE [tenant |-> [tw EXCEPT !.workspaceRole = "ADMIN"], res |-> None]
         ELSE LET wu == findWorkspaceUser(r, workspaceId) IN
              IF wu = None
              THEN [tenant |-> tw, res |-> None]
              ELSE IF WorkspaceAccount[workspaceId] # t.accountId
              THEN [tenant |-> None,
                    res |-> Response(403,
                        "Workspace does not belong to the specified account")]
              ELSE [tenant |-> [tw EXCEPT !.workspaceRole = wu.role], res |-> None]

\* tenantMiddleware(req, res, next): req.tenant and the response, NULL when it
\* calls next(). req.tenant stays unset when the middleware answers itself.
tenantMiddleware(r) ==
    LET accountId == r.accountId
        workspaceId == Or(r.workspaceId.query, Or(r.workspaceId.header,
                          Or(r.workspaceId.params, r.workspaceId.body)))
    IN IF accountId = NULL
       THEN [tenant |-> EmptyTenant, res |-> None]
       ELSE LET t == [EmptyTenant EXCEPT !.accountId = accountId] IN
            IF r.user.isAppOwner
            THEN IF findOwnedAccount(accountId, r.user.id) = NULL
                 THEN [tenant |-> None,
                       res |-> Response(403,
                           "Account not found or does not belong to this AppOwner")]
                 ELSE tenantWorkspace(r, [t EXCEPT !.accountRole = "ADMIN"], workspaceId)
            ELSE LET au == findAccountUser(r, accountId) IN
                 tenantWorkspace(r,
                    IF au # None THEN [t EXCEPT !.accountRole = au.role] ELSE t,
                    workspaceId)

\* The AppOwner branch of requireRole: no role check, and a workspace named
\* without an account fills the tenant from the workspace row.
requireRoleAppOwner(r, t) ==
    LET workspaceId == Or(t.workspaceId, Or(r.workspaceId.params, r.workspaceId.body))
        workspace == findWorkspace(workspaceId)
    IN IF workspaceId # NULL /\ t.accountId = NULL /\ workspace # None
       THEN [tenant |-> [t EXCEPT !.workspaceId = workspaceId,
                                  !.accountId = workspace.accountId,
                                  !.workspaceRole = "ADMIN",
                                  !.accountRole = "ADMIN"],
             res |-> None]
       ELSE [tenant |-> t, res |-> None]

\* "1. Resolve IDs" and "2. Resolve Upstream IDs if missing" of requireRole.
resolveDepartmentId(r) ==
    IF r.teamId # NULL /\ r.departmentId = NULL /\ r.teamId \in Teams
    THEN TeamDepartment[r.teamId]
    ELSE r.departmentId

resolveWorkspaceId(r, t) ==
    LET workspaceId == Or(t.workspaceId, Or(r.workspaceId.params,
                          Or(r.workspaceId.body, r.workspaceId.query)))
        departmentId == resolveDepartmentId(r)
    IN IF departmentId # NULL /\ workspaceId = NULL /\ departmentId \in Departments
       THEN DepartmentWorkspace[departmentId]
       ELSE workspaceId

\* The workspace step with the virtual ADMIN given to every account ADMIN,
\* whatever the required roles, as a variant of verifyWorkspace.
verifyWorkspace_AnyRoles(r, t, workspaceId, roles) ==
    IF workspaceId = NULL
    THEN [tenant |-> t, res |-> None]
    ELSE LET workspace == findWorkspace(workspaceId) IN
         IF workspace = None
         THEN [tenant |-> t, res |-> Response(404, "Workspace not found")]
         ELSE LET realAccountId == workspace.accountId
                  activeAccountUser == findAccountUser(r, realAccountId)
                  workspaceUser_ == findWorkspaceUser(r, workspaceId)
              IN IF activeAccountUser = None \/ activeAccountUser.status # "ACTIVE"
                 THEN [tenant |-> t,
                       res |-> Response(403,
                          "Access Denied. You must be an active member of the Account.")]
                 ELSE LET ta == [t EXCEPT !.accountId = realAccountId,
                                          !.accountRole = activeAccountUser.role]
                      IN IF workspaceUser_ = None \/ workspaceUser_.status # "ACTIVE"
                         THEN IF activeAccountUser.role = "ADMIN"
                              THEN [tenant |-> [ta EXCEPT !.workspaceId = workspaceId,
                                                          !.workspaceRole = "ADMIN"],
                                    res |-> None]
                              ELSE [tenant |-> ta,
                                    res |-> Response(403,
                          "Access Denied. You must be an active member of the Workspace.")]
                         ELSE [tenant |-> [ta EXCEPT !.workspaceId = workspaceId,
                                                     !.workspaceRole = workspaceUser_.role],
                               res |-> None]

\* "3. Verify Account Membership": the account and workspace rows of the user.
verifyWorkspace(r, t, workspaceId, roles) ==
    IF workspaceId = NULL
    THEN [tenant |-> t, res |-> None]
    ELSE LET workspace == findWorkspace(workspaceId) IN
         IF workspace = None
         THEN [tenant |-> t, res |-> Response(404, "Workspace not found")]
         ELSE LET realAccountId == workspace.accountId
                  activeAccountUser == findAccountUser(r, realAccountId)
                  workspaceUser_ == findWorkspaceUser(r, workspaceId)
              IN IF activeAccountUser = None \/ activeAccountUser.status # "ACTIVE"
                 THEN [tenant |-> t,
                       res |-> Response(403,
                          "Access Denied. You must be an active member of the Account.")]
                 ELSE LET ta == [t EXCEPT !.accountId = realAccountId,
                                          !.accountRole = activeAccountUser.role]
                      IN IF workspaceUser_ = None \/ workspaceUser_.status # "ACTIVE"
                         THEN IF activeAccountUser.role = "ADMIN"
                                 /\ UserRole.ACCOUNT_ADMIN \in roles
                              THEN [tenant |-> [ta EXCEPT !.workspaceId = workspaceId,
                                                          !.workspaceRole = "ADMIN"],
                                    res |-> None]
                              ELSE [tenant |-> ta,
                                    res |-> Response(403,
                          "Access Denied. You must be an active member of the Workspace.")]
                         ELSE [tenant |-> [ta EXCEPT !.workspaceId = workspaceId,
                                                     !.workspaceRole = workspaceUser_.role],
                               res |-> None]

\* "4. Verify Department Membership".
verifyDepartment(r, t, departmentId) ==
    IF departmentId = NULL
    THEN [tenant |-> t, res |-> None]
    ELSE IF t.workspaceId = NULL
    THEN [tenant |-> t,
          res |-> Response(403, "Access Denied. Workspace context required.")]
    ELSE LET du == findDepartmentUser(r, departmentId) IN
         IF t.workspaceRole = "ADMIN"
         THEN IF du # None
              THEN [tenant |-> [t EXCEPT !.departmentId = departmentId,
                                         !.departmentRole = du.role],
                    res |-> None]
              ELSE [tenant |-> [t EXCEPT !.departmentId = departmentId], res |-> None]
         ELSE IF du = None \/ du.status # "ACTIVE"
              THEN [tenant |-> t,
                    res |-> Response(403,
                       "Access Denied. You must be an active member of the Department.")]
              ELSE [tenant |-> [t EXCEPT !.departmentId = departmentId,
                                         !.departmentRole = du.role],
                    res |-> None]

\* The permission checks with HUMAN_SUPPORT met by a HUMAN_SUPPORT row only.
permissionChecks_ExactSupport(t, roles, workspaceId, departmentId) ==
    \/ UserRole.ACCOUNT_ADMIN \in roles /\ t.accountRole = "ADMIN"
    \/ UserRole.ACCOUNT_MEMBER \in roles /\ t.accountRole # NULL
    \/ UserRole.WORKSPACE_ADMIN \in roles /\ t.workspaceRole = "ADMIN"
    \/ UserRole.WORKSPACE_MEMBER \in roles /\ t.workspaceRole # NULL
    \/ /\ departmentId # NULL
       /\ t.departmentRole # NULL
       /\ \/ /\ UserRole.DEPARTMENT_MANAGER \in roles
             /\ t.departmentRole = "DEPARTMENT_MANAGER"
          \/ /\ UserRole.HUMAN_SUPPORT \in roles
             /\ t.departmentRole = "HUMAN_SUPPORT"
          \/ UserRole.DEPARTMENT_MEMBER \in roles
    \/ /\ t.accountId = NULL /\ workspaceId = NULL
       /\ (UserRole.ACCOUNT_ADMIN \in roles \/ UserRole.ACCOUNT_MEMBER \in roles)

\* "PERMISSION CHECKS" of requireRole: TRUE when one of them calls next().
permissionChecks(t, roles, workspaceId, departmentId) ==
    \/ UserRole.ACCOUNT_ADMIN \in roles /\ t.accountRole = "ADMIN"
    \/ UserRole.ACCOUNT_MEMBER \in roles /\ t.accountRole # NULL
    \/ UserRole.WORKSPACE_ADMIN \in roles /\ t.workspaceRole = "ADMIN"
    \/ UserRole.WORKSPACE_MEMBER \in roles /\ t.workspaceRole # NULL
    \/ /\ departmentId # NULL
       /\ t.departmentRole # NULL
       /\ \/ /\ UserRole.DEPARTMENT_MANAGER \in roles
             /\ t.departmentRole = "DEPARTMENT_MANAGER"
          \/ /\ UserRole.HUMAN_SUPPORT \in roles
             /\ t.departmentRole \in {"HUMAN_SUPPORT", "DEPARTMENT_MANAGER"}
          \/ UserRole.DEPARTMENT_MEMBER \in roles
    \/ /\ t.accountId = NULL /\ workspaceId = NULL
       /\ (UserRole.ACCOUNT_ADMIN \in roles \/ UserRole.ACCOUNT_MEMBER \in roles)

\* requireRole(...roles)(req, res, next): req.tenant as it leaves it and the
\* response, NULL when it calls next().
requireRole(r, t0) ==
    LET t == IF t0 = None THEN EmptyTenant ELSE t0 IN
    IF r.user.isAppOwner
    THEN requireRoleAppOwner(r, t)
    ELSE LET departmentId == resolveDepartmentId(r)
             workspaceId == resolveWorkspaceId(r, t)
             ws == verifyWorkspace(r, t, workspaceId, r.roles)
         IN IF ws.res # None
            THEN ws
            ELSE LET dp == verifyDepartment(r, ws.tenant, departmentId) IN
                 IF dp.res # None
                 THEN dp
                 ELSE IF permissionChecks(dp.tenant, r.roles, workspaceId, departmentId)
                 THEN dp
                 ELSE [tenant |-> dp.tenant,
                       res |-> Response(403, "Insufficient permissions")]

\* router.use(tenantMiddleware)
TenantMiddleware ==
    /\ stage = "tenantMiddleware"
    /\ LET out == tenantMiddleware(req) IN
        /\ tenant' = out.tenant
        /\ res' = out.res
        /\ stage' = IF out.res = None THEN "requireRole" ELSE "responded"
    /\ UNCHANGED <<accountUser, workspaceUser, departmentUser, req, convVars, sideVars, extVars>>

\* The route's requireRole(...); next() hands the request to the controller.
RequireRole ==
    /\ stage = "requireRole"
    /\ LET out == requireRole(req, tenant) IN
        /\ tenant' = out.tenant
        /\ res' = out.res
        /\ stage' = IF out.res = None THEN "next" ELSE "responded"
    /\ UNCHANGED <<accountUser, workspaceUser, departmentUser, req, convVars, sideVars, extVars>>

(* ------------------- the requests and the stored rows ----------------- *)

\* req.user as authMiddleware sets it: a regular user, or an AppOwner.
Principals ==
    {[id |-> "u1", isAppOwner |-> FALSE], [id |-> "o1", isAppOwner |-> TRUE]}

AccountIdArgs == Accounts \cup {NULL}
DepartmentIdArgs == Departments \cup {NULL}
TeamIdArgs == Teams \cup {NULL}

NoWorkspaceId == [query |-> NULL, header |-> NULL, params |-> NULL, body |-> NULL]

\* A request names its workspace in one place: the query string, the
\* x-workspace-id header, the route path or the body.
WorkspaceIdArgs ==
    {NoWorkspaceId}
    \cup {[NoWorkspaceId EXCEPT ![src] = w] :
            src \in {"query", "header", "params", "body"}, w \in Workspaces}

\* The role sets of the routes, and each department role alone.
RoleArgs ==
    {{UserRole.APP_OWNER},
     {UserRole.APP_OWNER, UserRole.ACCOUNT_ADMIN},
     {UserRole.APP_OWNER, UserRole.ACCOUNT_ADMIN, UserRole.ACCOUNT_MEMBER},
     {UserRole.ACCOUNT_ADMIN, UserRole.WORKSPACE_ADMIN},
     {UserRole.WORKSPACE_ADMIN},
     {UserRole.WORKSPACE_MEMBER},
     {UserRole.DEPARTMENT_MANAGER},
     {UserRole.HUMAN_SUPPORT},
     {UserRole.DEPARTMENT_MEMBER}}

Requests ==
    [user : Principals, accountId : AccountIdArgs, workspaceId : WorkspaceIdArgs,
     departmentId : DepartmentIdArgs, teamId : TeamIdArgs, roles : RoleArgs]

\* A membership row of the user: none, an ACTIVE row of each role, or a row
\* that is still INVITED.
Row(role, status) == [role |-> role, status |-> status]

AccountRows ==
    {None, Row("ADMIN", "ACTIVE"), Row("MEMBER", "ACTIVE"), Row("ADMIN", "INVITED")}
WorkspaceRows == AccountRows
DepartmentRows ==
    {None, Row("DEPARTMENT_MANAGER", "ACTIVE"), Row("HUMAN_SUPPORT", "ACTIVE"),
     Row("MEMBER", "ACTIVE"), Row("DEPARTMENT_MANAGER", "INVITED")}

\* The entities a request names, and their parents: the only ones whose
\* membership rows the two middlewares look up.
NamedDepartments(r) ==
    {r.departmentId} \cup {TeamDepartment[t] : t \in {r.teamId} \cap Teams}

NamedWorkspaces(r) ==
    {r.workspaceId.query, r.workspaceId.header, r.workspaceId.params, r.workspaceId.body}
    \cup {DepartmentWorkspace[d] : d \in NamedDepartments(r) \cap Departments}

NamedAccounts(r) ==
    {r.accountId} \cup {WorkspaceAccount[w] : w \in NamedWorkspaces(r) \cap Workspaces}

(* ====== DepartmentUserService (unnamed/part_006) and ==================== *)
(* ====== DepartmentAuthorityService (unnamed/part_000) ================== *)

\* What the department services never touch.
deptFrame ==
    <<conversation, statusWrites, messages, calls,
      accountUser, workspaceUser, req, tenant, res, stage, extVars>>

DeptWriteOps ==
    {"addUserToDepartment", "updateDepartmentUserRole", "removeUserFromDepartment"}

FlagOps == {"isDepartmentManager"}
ListOps == {"getDepartmentManagers", "getHumanSupportUsers", "getDepartmentUsers"}

DeptIdle ==
    [op |-> NULL, pc |-> "idle", departmentId |-> NULL, userId |-> NULL,
     workspaceId |-> NULL, accountId |-> NULL, role |-> NULL,
     asOf |-> 0, writeNo |-> 0,
     wrote |-> FALSE, cacheError |-> FALSE,
     found |-> None, value |-> None, result |-> NULL]

\* The department_users row of a user in a department; only u1 has rows.
DepartmentUserRow(userId, departmentId) ==
    IF userId = "u1" THEN departmentUser[departmentId] ELSE None

\* prisma.department.findFirst({ where: { id, workspaceId } }) and the account
\* comparison that follows it in the three writes.
findDepartmentInWorkspace(departmentId, workspaceId, accountId) ==
    IF departmentId \notin Departments
       \/ DepartmentWorkspace[departmentId] # workspaceId
    THEN "Department not found or does not belong to this workspace"
    ELSE IF WorkspaceAccount[workspaceId] # accountId
    THEN "Department does not belong to this account"
    ELSE NULL

\* _verifyDepartmentChain: a scope value that is not passed is not compared.
verifyDepartmentChain(departmentId, workspaceId, accountId) ==
    IF departmentId \notin Departments
       \/ (workspaceId # NULL /\ DepartmentWorkspace[departmentId] # workspaceId)
    THEN "Department not found"
    ELSE IF accountId # NULL
            /\ WorkspaceAccount[DepartmentWorkspace[departmentId]] # accountId
    THEN "Department does not belong to this account"
    ELSE NULL

\* let hasPermission: the caller's account role, workspace role, or the role of
\* the caller's own row in the department, read from the store.
hasPermission(callerInfo, departmentId) ==
    \/ callerInfo.accountRole = "ADMIN"
    \/ callerInfo.workspaceRole = "ADMIN"
    \/ /\ DepartmentUserRow(callerInfo.userId, departmentId) # None
       /\ DepartmentUserRow(callerInfo.userId, departmentId).role = "DEPARTMENT_MANAGER"

validRole(role) == role \in {"DEPARTMENT_MANAGER", "HUMAN_SUPPORT", "MEMBER"}

\* The target of addUserToDepartment: the user row and the workspace_users row.
verifyTargetUser(userId, workspaceId) ==
    IF userId \notin Users THEN "User not found"
    ELSE IF workspaceId \notin UserWorkspaces[userId]
    THEN "User does not belong to this workspace"
    ELSE NULL

\* addUserToDepartment up to the read of the existing row.
AddUserToDepartment(p, departmentId, workspaceId, accountId, data, callerInfo) ==
    /\ dcalls[p].pc = "idle"
    /\ nOps < MaxOps
    /\ nOps' = nOps + 1
    /\ LET call == [DeptIdle EXCEPT !.op = "addUserToDepartment",
                                    !.departmentId = departmentId,
                                    !.userId = data.userId,
                                    !.role = data.role,
                                    !.workspaceId = workspaceId,
                                    !.accountId = accountId]
           chain == findDepartmentInWorkspace(departmentId, workspaceId, accountId)
           user == verifyTargetUser(data.userId, workspaceId)
       IN dcalls' = [dcalls EXCEPT ![p] =
                IF chain # NULL
                THEN [call EXCEPT !.pc = "done", !.result = chain]
                ELSE IF ~hasPermission(callerInfo, departmentId)
                THEN [call EXCEPT !.pc = "done", !.result = "Insufficient permissions"]
                ELSE IF user # NULL
                THEN [call EXCEPT !.pc = "done", !.result = user]
                ELSE IF ~validRole(data.role)
                THEN [call EXCEPT !.pc = "done", !.result = "Role must be"]
                ELSE [call EXCEPT !.pc = "exists"]]
    /\ UNCHANGED <<deptFrame, departmentUser, cache, now, redis, deptWrites, deptWriteAt>>

\* updateDepartmentUserRole up to the read of the row to update.
UpdateDepartmentUserRole(p, departmentId, userId, workspaceId, accountId, data, callerInfo) ==
    /\ dcalls[p].pc = "idle"
    /\ nOps < MaxOps
    /\ nOps' = nOps + 1
    /\ LET call == [DeptIdle EXCEPT !.op = "updateDepartmentUserRole",
                                    !.departmentId = departmentId,
                                    !.userId = userId,
                                    !.role = data.role,
                                    !.workspaceId = workspaceId,
                                    !.accountId = accountId]
           chain == findDepartmentInWorkspace(departmentId, workspaceId, accountId)
       IN dcalls' = [dcalls EXCEPT ![p] =
                IF chain # NULL
                THEN [call EXCEPT !.pc = "done", !.result = chain]
                ELSE IF ~hasPermission(callerInfo, departmentId)
                THEN [call EXCEPT !.pc = "done", !.result = "Insufficient permissions"]
                ELSE [call EXCEPT !.pc = "exists"]]
    /\ UNCHANGED <<deptFrame, departmentUser, cache, now, redis, deptWrites, deptWriteAt>>

\* removeUserFromDepartment up to the read of the row to delete.
RemoveUserFromDepartment(p, departmentId, userId, workspaceId, accountId, callerInfo) ==
    /\ dcalls[p].pc = "idle"
    /\ nOps < MaxOps
    /\ nOps' = nOps + 1
    /\ LET call == [DeptIdle EXCEPT !.op = "removeUserFromDepartment",
                                    !.departmentId = departmentId,
                                    !.userId = userId,
                                    !.workspaceId = workspaceId,
                                    !.accountId = accountId]
           chain == findDepartmentInWorkspace(departmentId, workspaceId, accountId)
       IN dcalls' = [dcalls EXCEPT ![p] =
                IF chain # NULL
                THEN [call EXCEPT !.pc = "done", !.result = chain]
                ELSE IF ~hasPermission(callerInfo, departmentId)
                THEN [call EXCEPT !.pc = "done", !.result = "Insufficient permissions"]
                ELSE [call EXCEPT !.pc = "exists"]]
    /\ UNCHANGED <<deptFrame, departmentUser, cache, now, redis, deptWrites, deptWriteAt>>

\* prisma.departmentUser.findUnique of the target row, and for an update the
\* validation of the role that follows it.
DeptExists(p) ==
    /\ dcalls[p].pc = "exists"
    /\ LET call == dcalls[p]
           row == DepartmentUserRow(call.userId, call.departmentId)
       IN dcalls' = [dcalls EXCEPT ![p] =
                IF call.op = "addUserToDepartment"
                THEN IF row # None
                     THEN [call EXCEPT !.pc = "done",
                            !.result = "User is already assigned to this department"]
                     ELSE [call EXCEPT !.pc = "write"]
                ELSE IF row = None
                THEN [call EXCEPT !.pc = "done",
                            !.result = "User is not assigned to this department"]
                ELSE IF call.op = "updateDepartmentUserRole" /\ ~validRole(call.role)
                THEN [call EXCEPT !.pc = "done", !.result = "Role must be"]
                ELSE [call EXCEPT !.pc = "write"]]
    /\ UNCHANGED <<deptFrame, departmentUser, cache, now, nOps, redis, deptWrites, deptWriteAt>>

\* What the catch block of a write throws for an error that is not P2002.
Failed(op) ==
    CASE op = "addUserToDepartment"      -> "Failed to add user to department"
      [] op = "updateDepartmentUserRole" -> "Failed to update department user role"
      [] op = "removeUserFromDepartment" -> "Failed to remove user from department"

\* The row a write leaves in the store.
Written(call, row) ==
    CASE call.op = "addUserToDepartment"      -> Row(call.role, "ACTIVE")
      [] call.op = "updateDepartmentUserRole" -> [row EXCEPT !.role = call.role]
      [] call.op = "removeUserFromDepartment" -> None

\* prisma.departmentUser.create / update / delete inside the try. A create on a
\* row that exists by now is P2002; an update or delete of a row that is gone
\* by now is rethrown as the failure of the operation.
DeptStoreWrite(p) ==
    /\ dcalls[p].pc = "write"
    /\ LET call == dcalls[p]
           d == call.departmentId
           row == DepartmentUserRow(call.userId, d)
       IN IF call.op = "addUserToDepartment" /\ row # None
          THEN /\ dcalls' = [dcalls EXCEPT ![p] = [call EXCEPT !.pc = "done",
                        !.result = "User is already assigned to this department"]]
               /\ UNCHANGED <<departmentUser, deptWrites, deptWriteAt>>
          ELSE IF call.op # "addUserToDepartment" /\ row = None
          THEN /\ dcalls' = [dcalls EXCEPT ![p] = [call EXCEPT !.pc = "done",
                        !.result = Failed(call.op)]]
               /\ UNCHANGED <<departmentUser, deptWrites, deptWriteAt>>
          ELSE /\ departmentUser' = [departmentUser EXCEPT ![d] = Written(call, row)]
               /\ deptWrites' = [deptWrites EXCEPT ![d] = @ + 1]
               /\ deptWriteAt' = [deptWriteAt EXCEPT ![d] = now]
               /\ dcalls' = [dcalls EXCEPT ![p] = [call EXCEPT !.pc = "del",
                        !.wrote = TRUE, !.writeNo = deptWrites[d] + 1]]
    /\ UNCHANGED <<deptFrame, cache, now, nOps, redis>>

\* await redis.del(`department:${departmentId}`) and
\* await redis.del(`department_users:department:${departmentId}`), still inside
\* the try: a rejected delete reaches the catch block; then the return.
DeptDel(p) ==
    /\ dcalls[p].pc = "del"
    /\ LET call == dcalls[p]
           gone == {<<"department", call.departmentId>>,
                    <<"department_users:department", call.departmentId>>}
       IN IF redis = "down"
          THEN /\ cache' = cache
               /\ dcalls' = [dcalls EXCEPT ![p] = [call EXCEPT !.pc = "done",
                        !.cacheError = TRUE, !.result = Failed(call.op)]]
          ELSE /\ cache' = redisDel(gone)
               /\ dcalls' = [dcalls EXCEPT ![p] = [call EXCEPT !.pc = "done",
                        !.result = "ok"]]
    /\ UNCHANGED <<deptFrame, departmentUser, now, nOps, redis, deptWrites, deptWriteAt>>

\* The caller takes the outcome of a department call.
DeptReturn(p) ==
    /\ dcalls[p].pc = "done"
    /\ dcalls' = [dcalls EXCEPT ![p] = DeptIdle]
    /\ UNCHANGED <<deptFrame, departmentUser, cache, now, nOps, redis, deptWrites, deptWriteAt>>

\* const cacheKey of each lookup.
cacheKey(op, userId, departmentId) ==
    CASE op = "isDepartmentManager"   -> <<"is_dept_manager", userId, departmentId>>
      [] op = "getDepartmentManagers" -> <<"department_managers", departmentId>>
      [] op = "getHumanSupportUsers"  -> <<"department_human_support", departmentId>>
      [] op = "getDepartmentUsers"    -> <<"department_users:department", departmentId>>

\* What each lookup computes from the store.
StoreValue(op, userId, departmentId) ==
    LET row == DepartmentUserRow(userId, departmentId)
        own == departmentUser[departmentId]
    IN CASE op = "isDepartmentManager" ->
              [flag |-> row # None /\ row.role = "DEPARTMENT_MANAGER"]
         [] op = "getDepartmentManagers" ->
              [list |-> IF own # None /\ own.role = "DEPARTMENT_MANAGER"
                        THEN {"u1"} ELSE {}]
         [] op = "getHumanSupportUsers" ->
              [list |-> IF own # None /\ own.role = "HUMAN_SUPPORT"
                        THEN {"u1"} ELSE {}]
         [] op = "getDepartmentUsers" ->
              [list |-> IF own = None THEN {}
                        ELSE {[userId |-> "u1", role |-> own.role]}]

\* isManager ? 'true' : 'false', and JSON.stringify for the lists.
Stringify(op, v) ==
    IF op \in FlagOps
    THEN [text |-> IF v.flag THEN "true" ELSE "false"]
    ELSE [json |-> v.list]

\* cached === 'true', and JSON.parse for the lists.
Parse(op, cached) ==
    IF op \in FlagOps
    THEN [flag |-> cached.text = "true"]
    ELSE [list |-> cached.json]

\* A lookup up to the answer of its chain verification: the three methods of
\* the authority service call _verifyDepartmentChain, getDepartmentUsers reads
\* the department by id and workspaceId.
DeptLookup(p, op, userId, departmentId, workspaceId, accountId) ==
    /\ dcalls[p].pc = "idle"
    /\ nOps < MaxOps
    /\ nOps' = nOps + 1
    /\ LET call == [DeptIdle EXCEPT !.op = op,
                                    !.departmentId = departmentId,
                                    !.userId = userId,
                                    !.workspaceId = workspaceId,
                                    !.accountId = accountId]
           chain == IF op = "getDepartmentUsers"
                    THEN findDepartmentInWorkspace(departmentId, workspaceId,
                                          WorkspaceAccount[workspaceId])
                    ELSE verifyDepartmentChain(departmentId, workspaceId, accountId)
       IN dcalls' = [dcalls EXCEPT ![p] =
                IF chain # NULL
                THEN [call EXCEPT !.pc = "done", !.result = chain]
                ELSE [call EXCEPT !.pc = "cache"]]
    /\ UNCHANGED <<deptFrame, departmentUser, cache, now, redis, deptWrites, deptWriteAt>>

\* const cached = await redis.get(cacheKey); a hit is returned.
DeptCacheGet(p) ==
    /\ dcalls[p].pc = "cache"
    /\ LET call == dcalls[p]
           cached == redisGet(cacheKey(call.op, call.userId, call.departmentId))
       IN dcalls' = [dcalls EXCEPT ![p] =
                IF redis = "down"
                THEN [call EXCEPT !.pc = "done", !.cacheError = TRUE,
                                  !.result = "redis error"]
                ELSE IF cached # None
                THEN [call EXCEPT !.pc = "done", !.result = "ok",
                                  !.value = Parse(call.op, cached)]
                ELSE [call EXCEPT !.pc = "store"]]
    /\ UNCHANGED <<deptFrame, departmentUser, cache, now, nOps, redis, deptWrites, deptWriteAt>>

\* await prisma.departmentUser.findUnique / findMany
DeptStoreRead(p) ==
    /\ dcalls[p].pc = "store"
    /\ dcalls' = [dcalls EXCEPT
            ![p].pc = "setex",
            ![p].found = StoreValue(dcalls[p].op, dcalls[p].userId, dcalls[p].departmentId),
            ![p].asOf = deptWrites[dcalls[p].departmentId]]
    /\ UNCHANGED <<deptFrame, departmentUser, cache, now, nOps, redis, deptWrites, deptWriteAt>>

\* await redis.setex(cacheKey, 300, ...), then the return of what was read.
DeptSetex(p) ==
    /\ dcalls[p].pc = "setex"
    /\ LET call == dcalls[p]
       IN IF redis = "down"
          THEN /\ cache' = cache
               /\ dcalls' = [dcalls EXCEPT ![p] = [call EXCEPT !.pc = "done",
                        !.cacheError = TRUE, !.result = "redis error"]]
          ELSE /\ cache' = redisSetex(cacheKey(call.op, call.userId, call.departmentId),
                                      Stringify(call.op, call.found), call.asOf)
               /\ dcalls' = [dcalls EXCEPT ![p] = [call EXCEPT !.pc = "done",
                        !.result = "ok", !.value = call.found,
                        !.found = None, !.asOf = 0]]
    /\ UNCHANGED <<deptFrame, departmentUser, now, nOps, redis, deptWrites, deptWriteAt>>

\* The instants of the clock that matter to an entry of 300 seconds.
ClockValues == {0, 1, TTL}

\* Time passes.
Tick ==
    /\ \E t \in ClockValues :
        /\ t > now
        /\ \A u \in ClockValues : u > now => t <= u
        /\ now' = t
    /\ UNCHANGED <<deptFrame, departmentUser, cache, nOps, redis, deptWrites, deptWriteAt, dcalls>>

(* ================= conversationAccess.service.js ====================== *)

AccessOps == {"canUserViewConversation", "getConversationVisibilityScope"}

\* conversation.metadata.departmentId: the conversations carry no department.
ConversationMetadata == [c \in ConversationIds |-> [departmentId |-> NULL]]

\* _resolveConversationDepartmentId(conversation)
resolveConversationDepartmentId(conversationId) ==
    ConversationMetadata[conversationId].departmentId

\* const cacheKey of the two lookups.
accessCacheKey(op, userId, conversationId) ==
    IF op = "canUserViewConversation"
    THEN <<"conversation_access", userId, conversationId>>
    ELSE <<"conversation_visibility", conversationId>>

\* What each lookup computes from the conversation row it read in the chain
\* verification. A conversation with a department is visible to the members
\* of the department.
AccessValue(op, userId, conversationId, row) ==
    LET departmentId == resolveConversationDepartmentId(conversationId) IN
    IF op = "canUserViewConversation"
    THEN [flag |-> \/ row.assignedUserId = userId
                   \/ /\ departmentId \in Departments
                      /\ DepartmentUserRow(userId, departmentId) # None]
    ELSE [scope |-> [departmentId |-> departmentId,
                     assignedUserId |-> row.assignedUserId,
                     visibilityType |-> IF row.assignedUserId # NULL
                                        THEN "USER_ASSIGNED" ELSE "DEPARTMENT"]]

\* 'true' / 'false' for the flag, JSON.stringify(scope) for the scope.
AccessStringify(op, v) ==
    IF op = "canUserViewConversation"
    THEN [text |-> IF v.flag THEN "true" ELSE "false"]
    ELSE [json |-> v.scope]

\* cached === 'true', and JSON.parse(cached).
AccessParse(op, cached) ==
    IF op = "canUserViewConversation"
    THEN [flag |-> cached.text = "true"]
    ELSE [scope |-> cached.json]

\* canUserViewConversation / getConversationVisibilityScope up to the answer
\* of _verifyConversationChain, which returns the conversation row.
AccessLookup(p, op, userId, conversationId, workspaceId, accountId) ==
    /\ calls[p].pc = "idle"
    /\ nOps < MaxOps
    /\ nOps' = nOps + 1
    /\ LET call == [Idle EXCEPT !.op = op,
                                !.conversationId = conversationId,
                                !.userId = userId,
                                !.workspaceId = workspaceId,
                                !.accountId = accountId]
           row == verifyConversationChain(conversationId, workspaceId, accountId)
       IN calls' = [calls EXCEPT ![p] =
                IF row.error # NULL
                THEN [call EXCEPT !.pc = "done", !.result = row.error]
                ELSE [call EXCEPT !.pc = "accessCache",
                        !.found = [assignedUserId |->
                                     conversation[conversationId].assignedUserId]]]
    /\ UNCHANGED <<conversation, statusWrites, messages, cache, now, authVars, sideVars, extVars>>

canUserViewConversation(p, userId, conversationId, workspaceId, accountId) ==
    AccessLookup(p, "canUserViewConversation", userId, conversationId,
                 workspaceId, accountId)

getConversationVisibilityScope(p, conversationId, workspaceId, accountId) ==
    AccessLookup(p, "getConversationVisibilityScope", NULL, conversationId,
                 workspaceId, accountId)

\* const cached = await redis.get(cacheKey); a hit is returned.
AccessCacheGet(p) ==
    /\ calls[p].pc = "accessCache"
    /\ LET call == calls[p]
           cached == redisGet(accessCacheKey(call.op, call.userId, call.conversationId))
       IN calls' = [calls EXCEPT ![p] =
                IF redis = "down"
                THEN [call EXCEPT !.pc = "done", !.cacheError = TRUE, !.found = None,
                                  !.result = "redis error"]
                ELSE IF cached # None
                THEN [call EXCEPT !.pc = "done", !.result = "ok", !.found = None,
                                  !.value = AccessParse(call.op, cached)]
                ELSE [call EXCEPT !.pc = "accessSetex"]]
    /\ UNCHANGED <<conversation, statusWrites, messages, cache, now, nOps, authVars, sideVars, extVars>>

\* await redis.setex(cacheKey, 300, ...), then the return of what was computed.
AccessSetex(p) ==
    /\ calls[p].pc = "accessSetex"
    /\ LET call == calls[p]
           v == AccessValue(call.op, call.userId, call.conversationId, call.found)
       IN IF redis = "down"
          THEN /\ cache' = cache
               /\ calls' = [calls EXCEPT ![p] =
                    [call EXCEPT !.pc = "done", !.cacheError = TRUE, !.found = None,
                                 !.result = "redis error"]]
          ELSE /\ cache' = redisSetex(
                        accessCacheKey(call.op, call.userId, call.conversationId),
                        AccessStringify(call.op, v), 0)
               /\ calls' = [calls EXCEPT ![p] =
                    [call EXCEPT !.pc = "done", !.result = "ok", !.found = None,
                                 !.value = v]]
    /\ UNCHANGED <<conversation, statusWrites, messages, now, nOps, authVars, sideVars, extVars>>

(* ====================== inboxQuery.service.js ========================= *)

\* What the inbox views never touch.
inboxFrame == <<convVars, authVars, sideVars, tokenVars, inviteVars, msgVars>>

\* The departments of the inbox views: two in workspace w1, one in w2.
InboxDepartments == {"d1", "d2", "d3"}
InboxDepartmentWorkspace ==
    [d \in InboxDepartments |-> IF d = "d3" THEN "w2" ELSE "w1"]

InboxConversationIds == {"c1", "c2"}

\* The role of the department_users row of a user in a department, NULL
\* without a row; only u1 has rows.
InboxDepartmentUserRole(userId, departmentId) ==
    IF userId = "u1" THEN inboxDepartmentUsers[departmentId] ELSE NULL

\* _verifyUserInWorkspace of the inbox views.
inboxVerifyUserInWorkspace(userId, workspaceId) ==
    IF userId \notin Users \/ workspaceId \notin UserWorkspaces[userId]
    THEN "User does not belong to this workspace"
    ELSE NULL

\* _getHumanSupportDepartments: the departments of the user's HUMAN_SUPPORT
\* rows, those of other workspaces filtered out.
getHumanSupportDepartments(userId, workspaceId) ==
    {d \in InboxDepartments :
        /\ InboxDepartmentUserRole(userId, d) = "HUMAN_SUPPORT"
        /\ InboxDepartmentWorkspace[d] = workspaceId}

\* prisma.conversation.findMany({ where: { workspaceId, status: 'ESCALATED',
\* workspace: { departments: { some: { id: { in: departmentIds } } } } } })
findEscalatedConversations(workspaceId, departmentIds) ==
    {c \in InboxConversationIds :
        /\ inboxConversations[c].workspaceId = workspaceId
        /\ inboxConversations[c].status = "ESCALATED"
        /\ \E d \in InboxDepartments :
              /\ InboxDepartmentWorkspace[d] = inboxConversations[c].workspaceId
              /\ d \in departmentIds}

\* getEscalatedInbox(userId, workspaceId). The include of the to-one relation
\* department carries a where clause: the client either applies it or rejects
\* the query, and then the call throws.
getEscalatedInbox(userId, workspaceId) ==
    /\ inboxResult = None
    /\ \E relationFilter \in {"applied", "rejected"} :
        LET call == [op |-> "getEscalatedInbox", userId |-> userId,
                     workspaceId |-> workspaceId, error |-> NULL,
                     conversations |-> {}]
            user == inboxVerifyUserInWorkspace(userId, workspaceId)
            humanSupportDepartments == getHumanSupportDepartments(userId, workspaceId)
        IN inboxResult' =
             IF user # NULL
             THEN [call EXCEPT !.error = user]
             ELSE IF relationFilter = "rejected"
             THEN [call EXCEPT !.error = "PrismaClientValidationError"]
             ELSE IF humanSupportDepartments = {}
             THEN call
             ELSE [call EXCEPT !.conversations =
                     findEscalatedConversations(workspaceId, humanSupportDepartments)]
    /\ UNCHANGED <<inboxFrame, inboxConversations, inboxDepartmentUsers>>

(* ============== AuthService.refreshToken, utils/jwt.js ================ *)

\* What refreshToken never touches.
tokenFrame ==
    <<conversation, statusWrites, messages, cache, calls, authVars, sideVars, inboxVars,
      inviteVars, msgVars>>

\* new Date(Date.now() + 7 * 24 * 60 * 60 * 1000), in seconds.
RefreshTokenLifetime == 604800

\* The table of each kind of principal.
TokenTables == {"refreshToken", "appOwnerRefreshToken"}

\* generateRefreshToken(userId, email): jwt.sign of the payload { userId, email,
\* type: 'refresh' } with the iat claim jsonwebtoken adds, the clock in whole
\* seconds. The same payload signed in the same second is the same string.
generateRefreshToken(userId, iat) == [userId |-> userId, type |-> "refresh", iat |-> iat]

\* prisma.<table>.findUnique({ where: { token } })
findToken(table, token) ==
    IF \E r \in refreshTokens : r.table = table /\ r.token = token
    THEN CHOOSE r \in refreshTokens : r.table = table /\ r.token = token
    ELSE None

TokenCallIdle ==
    [pc |-> "idle", token |-> None, tokenRecord |-> None, tokens |-> None,
     result |-> NULL]

\* The tokens generated once the record is found and has not expired.
RefreshFound(call, tokenRecord) ==
    IF tokenRecord.expiresAt < now
    THEN [call EXCEPT !.pc = "done", !.result = "Invalid or expired refresh token"]
    ELSE [call EXCEPT !.pc = "delete", !.tokenRecord = tokenRecord,
                      !.tokens = generateRefreshToken(tokenRecord.userId, now)]

\* refreshToken(refreshToken) up to the answer of prisma.refreshToken.findUnique.
RefreshToken(p, token) ==
    /\ tcalls[p].pc = "idle"
    /\ nOps < MaxOps
    /\ nOps' = nOps + 1
    /\ LET call == [TokenCallIdle EXCEPT !.token = token]
           tokenRecord == findToken("refreshToken", token)
       IN tcalls' = [tcalls EXCEPT ![p] =
                IF tokenRecord # None
                THEN RefreshFound(call, tokenRecord)
                ELSE [call EXCEPT !.pc = "findAppOwner"]]
    /\ UNCHANGED <<tokenFrame, now, refreshTokens, nextTokenId, redeemed>>

\* prisma.appOwnerRefreshToken.findUnique for a token that is no user token.
RefreshFindAppOwner(p) ==
    /\ tcalls[p].pc = "findAppOwner"
    /\ LET call == tcalls[p]
           tokenRecord == findToken("appOwnerRefreshToken", call.token)
       IN tcalls' = [tcalls EXCEPT ![p] =
                IF tokenRecord = None
                THEN [call EXCEPT !.pc = "done",
                                  !.result = "Invalid or expired refresh token"]
                ELSE RefreshFound(call, tokenRecord)]
    /\ UNCHANGED <<tokenFrame, now, nOps, refreshTokens, nextTokenId, redeemed>>

\* prisma.<table>.delete({ where: { id: tokenRecord.id } }): the delete of a
\* row that is gone throws.
RefreshDelete(p) ==
    /\ tcalls[p].pc = "delete"
    /\ LET call == tcalls[p] IN
        IF call.tokenRecord \in refreshTokens
        THEN /\ refreshTokens' = refreshTokens \ {call.tokenRecord}
             /\ tcalls' = [tcalls EXCEPT ![p].pc = "create"]
        ELSE /\ refreshTokens' = refreshTokens
             /\ tcalls' = [tcalls EXCEPT ![p].pc = "done",
                                         ![p].result = "Record to delete does not exist"]
    /\ UNCHANGED <<tokenFrame, now, nOps, nextTokenId, redeemed>>

\* prisma.<table>.create({ data: { userId, token: tokens.refreshToken,
\* expiresAt } }), then return tokens; token is a unique column.
RefreshCreate(p) ==
    /\ tcalls[p].pc = "create"
    /\ LET call == tcalls[p]
           table == call.tokenRecord.table
       IN IF findToken(table, call.tokens) # None
          THEN /\ tcalls' = [tcalls EXCEPT ![p].pc = "done",
                                ![p].result = "Unique constraint failed"]
               /\ UNCHANGED <<refreshTokens, nextTokenId, redeemed>>
          ELSE /\ refreshTokens' = refreshTokens \cup
                    {[id |-> nextTokenId, table |-> table,
                      userId |-> call.tokenRecord.userId, token |-> call.tokens,
                      expiresAt |-> now + RefreshTokenLifetime]}
               /\ nextTokenId' = nextTokenId + 1
               /\ redeemed' = [redeemed EXCEPT ![call.token] = @ + 1]
               /\ tcalls' = [tcalls EXCEPT ![p].pc = "done", ![p].result = "ok"]
    /\ UNCHANGED <<tokenFrame, now, nOps>>

\* The caller takes the outcome of refreshToken.
TokenReturn(p) ==
    /\ tcalls[p].pc = "done"
    /\ tcalls' = [tcalls EXCEPT ![p] = TokenCallIdle]
    /\ UNCHANGED <<tokenFrame, now, nOps, refreshTokens, nextTokenId, redeemed>>

\* The instants that matter to a token: the second it is issued in, the next
\* one, and the first after its expiry.
TokenClock == {0, 1, RefreshTokenLifetime + 1}

\* A second passes.
TokenTick ==
    /\ \E t \in TokenClock :
        /\ t > now
        /\ \A u \in TokenClock : u > now => t <= u
        /\ now' = t
    /\ UNCHANGED <<tokenFrame, nOps, tokenVars>>

(* ===================== invitation.service.js ========================== *)

\* What acceptInvitationAndRegisterUser never touches.
inviteFrame ==
    <<conversation, statusWrites, messages, cache, calls, authVars, sideVars, inboxVars,
      tokenVars, msgVars>>

\* createInvitation: expiresInDays = 7; the clock of an invitation is in days.
InvitationLifetime == 7

InvitationIds == {"i1", "i2"}
InviteTokens == {"t1", "t2", "t9"}

\* _hashToken(token): the sha256 digest of the token, no token's own text.
_hashToken(token) ==
    CASE token = "t1" -> "h1"
      [] token = "t2" -> "h2"
      [] OTHER        -> "h9"

\* The tables the activation loops over, in its order.
membershipTables == <<"accountUser", "workspaceUser", "departmentUser", "teamUser">>

\* The id prisma.user.create gives the row; email is unique, so one per email.
newUserId(email) == "user:" \o email

\* prisma.invitation.findFirst({ where: { tokenHash } })
findInvitation(tokenHash) ==
    IF \E i \in DOMAIN invitations : invitations[i].tokenHash = tokenHash
    THEN LET i == CHOOSE j \in DOMAIN invitations : invitations[j].tokenHash = tokenHash
         IN [id |-> i, email |-> invitations[i].email,
             status |-> invitations[i].status, expiresAt |-> invitations[i].expiresAt]
    ELSE None

InviteCallIdle ==
    [pc |-> "idle", token |-> NULL, invitation |-> None, user |-> NULL, table |-> 0,
     result |-> NULL]

\* The checks on the invitation that was found.
InvitationFound(call, invitation) ==
    IF invitation.status # "INVITED"
    THEN [call EXCEPT !.pc = "done", !.result = "Invitation is not valid"]
    ELSE IF now > invitation.expiresAt
    THEN [call EXCEPT !.pc = "expire", !.invitation = invitation]
    ELSE [call EXCEPT !.pc = "findUser", !.invitation = invitation]

\* acceptInvitationAndRegisterUser(token, userData) up to the answer of the
\* lookup by the plain token.
acceptInvitationAndRegisterUser(p, token) ==
    /\ icalls[p].pc = "idle"
    /\ nOps < MaxOps
    /\ nOps' = nOps + 1
    /\ LET call == [InviteCallIdle EXCEPT !.token = token]
           invitation == findInvitation(token)
       IN icalls' = [icalls EXCEPT ![p] =
                IF invitation = None
                THEN [call EXCEPT !.pc = "findHashed"]
                ELSE InvitationFound(call, invitation)]
    /\ UNCHANGED <<inviteFrame, now, invitations, users, memberships>>

\* The lookup by the hashed token (backward compatibility).
AcceptFindHashed(p) ==
    /\ icalls[p].pc = "findHashed"
    /\ LET call == icalls[p]
           invitation == findInvitation(_hashToken(call.token))
       IN icalls' = [icalls EXCEPT ![p] =
                IF invitation = None
                THEN [call EXCEPT !.pc = "done", !.result = "Invalid invitation token"]
                ELSE InvitationFound(call, invitation)]
    /\ UNCHANGED <<inviteFrame, now, nOps, invitations, users, memberships>>

\* prisma.invitation.update({ where: { id }, data: { status: 'EXPIRED' } })
\* and the throw.
AcceptExpire(p) ==
    /\ icalls[p].pc = "expire"
    /\ invitations' = [invitations EXCEPT ![icalls[p].invitation.id].status = "EXPIRED"]
    /\ icalls' = [icalls EXCEPT ![p].pc = "done",
                                ![p].result = "Invitation has expired"]
    /\ UNCHANGED <<inviteFrame, now, nOps, users, memberships>>

\* AuthService.createUser: prisma.user.findUnique({ where: { email } }).
AcceptFindUser(p) ==
    /\ icalls[p].pc = "findUser"
    /\ icalls' = [icalls EXCEPT ![p] =
            IF \E u \in users : u.email = @.invitation.email
            THEN [@ EXCEPT !.pc = "done",
                           !.result = "User with this email already exists"]
            ELSE [@ EXCEPT !.pc = "createUser"]]
    /\ UNCHANGED <<inviteFrame, now, nOps, invitations, users, memberships>>

\* AuthService.createUser: hashPassword, then prisma.user.create; email is a
\* unique column.
AcceptCreateUser(p) ==
    /\ icalls[p].pc = "createUser"
    /\ LET email == icalls[p].invitation.email IN
        IF \E u \in users : u.email = email
        THEN /\ icalls' = [icalls EXCEPT ![p].pc = "done",
                                         ![p].result = "Unique constraint failed"]
             /\ users' = users
        ELSE /\ users' = users \cup {[id |-> newUserId(email), email |-> email]}
             /\ icalls' = [icalls EXCEPT ![p].pc = "activate", ![p].table = 1,
                                         ![p].user = newUserId(email)]
    /\ UNCHANGED <<inviteFrame, now, nOps, invitations, memberships>>

\* One turn of the loop: table.updateMany({ where: { email, status: 'INVITED' },
\* data: { userId, status: 'ACTIVE' } }).
AcceptActivate(p) ==
    /\ icalls[p].pc = "activate"
    /\ LET call == icalls[p]
           hit(m) == /\ m.table = membershipTables[call.table]
                     /\ m.email = call.invitation.email
                     /\ m.status = "INVITED"
       IN /\ memberships' =
                {IF hit(m) THEN [m EXCEPT !.userId = call.user, !.status = "ACTIVE"]
                 ELSE m : m \in memberships}
          /\ icalls' = [icalls EXCEPT ![p] =
                IF call.table < Len(membershipTables)
                THEN [call EXCEPT !.table = @ + 1]
                ELSE [call EXCEPT !.pc = "accept"]]
    /\ UNCHANGED <<inviteFrame, now, nOps, invitations, users>>

\* prisma.invitation.update({ where: { id }, data: { status: 'ACCEPTED' } })
\* and return { success: true }.
AcceptMark(p) ==
    /\ icalls[p].pc = "accept"
    /\ invitations' = [invitations EXCEPT
            ![icalls[p].invitation.id].status = "ACCEPTED",
            ![icalls[p].invitation.id].accepts = @ + 1]
    /\ icalls' = [icalls EXCEPT ![p].pc = "done", ![p].result = "ok"]
    /\ UNCHANGED <<inviteFrame, now, nOps, users, memberships>>

\* The caller takes the outcome of acceptInvitationAndRegisterUser.
InviteReturn(p) ==
    /\ icalls[p].pc = "done"
    /\ icalls' = [icalls EXCEPT ![p] = InviteCallIdle]
    /\ UNCHANGED <<inviteFrame, now, nOps, invitations, users, memberships>>

\* The days that matter to an invitation: the day it is created, the day it
\* expires on, and the day after.
InviteClock == {0, InvitationLifetime, InvitationLifetime + 1}

\* Time passes.
InviteTick ==
    /\ \E t \in InviteClock :
        /\ t > now
        /\ \A u \in InviteClock : u > now => t <= u
        /\ now' = t
    /\ UNCHANGED <<inviteFrame, nOps, inviteVars>>

(* ============ inbox.service.js: find or create, then attach =========== *)

\* What the find-or-create part of an inbound message never touches.
msgFrame ==
    <<conversation, statusWrites, messages, cache, calls, authVars, sideVars, inboxVars,
      tokenVars, inviteVars>>

MessageOps == {"createInboundMessage", "createMockMessage"}
SenderEmails == {"e1", "e2"}

\* The id prisma.contact.create gives the row; email is unique, so one per email.
newContactId(email) == "contact:" \o email

MessageCallIdle ==
    [op |-> NULL, pc |-> "idle", workspaceId |-> NULL, fromEmail |-> NULL,
     contact |-> NULL, conversation |-> 0, message |-> 0, result |-> NULL]

\* createMockMessage / createInboundMessage up to the answer of
\* prisma.workspace.findUnique({ where: { id: workspaceId } }).
MessageCall(p, op, workspaceId, fromEmail) ==
    /\ mcalls[p].pc = "idle"
    /\ nOps < MaxOps
    /\ nOps' = nOps + 1
    /\ LET call == [MessageCallIdle EXCEPT !.op = op, !.workspaceId = workspaceId,
                                           !.fromEmail = fromEmail]
       IN mcalls' = [mcalls EXCEPT ![p] =
                IF workspaceId \notin Workspaces
                THEN [call EXCEPT !.pc = "done", !.result = "Workspace not found"]
                ELSE [call EXCEPT !.pc = "findContact"]]
    /\ UNCHANGED <<msgFrame, now, contacts, conversationRows, messageRows>>

createMockMessage(p, workspaceId, fromEmail) ==
    MessageCall(p, "createMockMessage", workspaceId, fromEmail)

createInboundMessageFrom(p, workspaceId, fromEmail) ==
    MessageCall(p, "createInboundMessage", workspaceId, fromEmail)

\* prisma.contact.findUnique({ where: { email: data.fromEmail } })
MessageFindContact(p) ==
    /\ mcalls[p].pc = "findContact"
    /\ LET call == mcalls[p]
       IN mcalls' = [mcalls EXCEPT ![p] =
            IF \E c \in contacts : c.email = call.fromEmail
            THEN [call EXCEPT !.pc = "findConversation",
                              !.contact = newContactId(call.fromEmail)]
            ELSE [call EXCEPT !.pc = "createContact"]]
    /\ UNCHANGED <<msgFrame, now, nOps, contacts, conversationRows, messageRows>>

\* prisma.contact.create({ data: { email, name } }): email is a unique column,
\* the create of a second row with it throws.
MessageCreateContact(p) ==
    /\ mcalls[p].pc = "createContact"
    /\ LET email == mcalls[p].fromEmail IN
        IF \E c \in contacts : c.email = email
        THEN /\ contacts' = contacts
             /\ mcalls' = [mcalls EXCEPT ![p].pc = "done",
                                         ![p].result = "Unique constraint failed"]
        ELSE /\ contacts' = contacts \cup {[id |-> newContactId(email), email |-> email]}
             /\ mcalls' = [mcalls EXCEPT ![p].pc = "findConversation",
                                         ![p].contact = newContactId(email)]
    /\ UNCHANGED <<msgFrame, now, nOps, conversationRows, messageRows>>

\* The conversation rows of a workspace and a contact.
conversationsOf(workspaceId, contactId) ==
    {c \in conversationRows : c.workspaceId = workspaceId /\ c.contactId = contactId}

\* prisma.conversation.findFirst({ where: { workspaceId, contactId } }): any of
\* the matching rows, no order is asked for.
MessageFindConversation(p) ==
    /\ mcalls[p].pc = "findConversation"
    /\ LET call == mcalls[p]
           rows == conversationsOf(call.workspaceId, call.contact)
       IN IF rows = {}
          THEN mcalls' = [mcalls EXCEPT ![p].pc = "createConversation"]
          ELSE \E c \in rows :
                mcalls' = [mcalls EXCEPT ![p].pc = "createMessage",
                                         ![p].conversation = c.id]
    /\ UNCHANGED <<msgFrame, now, nOps, contacts, conversationRows, messageRows>>

\* prisma.conversation.create({ data: { workspaceId, contactId, subject } }).
\* The sources do not show whether the database holds (workspaceId, contactId)
\* unique: where a row of the pair exists, the create may add a second row or
\* throw.
MessageCreateConversation(p) ==
    /\ mcalls[p].pc = "createConversation"
    /\ LET call == mcalls[p]
           id == Cardinality(conversationRows) + 1
       IN \/ /\ conversationRows' = conversationRows \cup
                    {[id |-> id, workspaceId |-> call.workspaceId,
                      contactId |-> call.contact, lastMessageAt |-> 0]}
             /\ mcalls' = [mcalls EXCEPT ![p].pc = "createMessage",
                                         ![p].conversation = id]
          \/ /\ conversationsOf(call.workspaceId, call.contact) # {}
             /\ conversationRows' = conversationRows
             /\ mcalls' = [mcalls EXCEPT ![p].pc = "done",
                                         ![p].result = "Unique constraint failed"]
    /\ UNCHANGED <<msgFrame, now, nOps, contacts, messageRows>>

\* prisma.message.create({ data: { conversationId: conversation.id, ... } })
MessageCreate(p) ==
    /\ mcalls[p].pc = "createMessage"
    /\ LET id == Cardinality(messageRows) + 1 IN
        /\ messageRows' = messageRows \cup
                {[id |-> id, conversationId |-> mcalls[p].conversation,
                  fromEmail |-> mcalls[p].fromEmail]}
        /\ mcalls' = [mcalls EXCEPT ![p].pc = "touch", ![p].message = id]
    /\ UNCHANGED <<msgFrame, now, nOps, contacts, conversationRows>>

\* prisma.conversation.update({ where: { id }, data: { lastMessageAt: new
\* Date() } }) and the return of { message, conversation, contact }.
MessageTouch(p) ==
    /\ mcalls[p].pc = "touch"
    /\ conversationRows' =
            {IF c.id = mcalls[p].conversation THEN [c EXCEPT !.lastMessageAt = now]
             ELSE c : c \in conversationRows}
    /\ now' = now + 1
    /\ mcalls' = [mcalls EXCEPT ![p].pc = "done", ![p].result = "ok"]
    /\ UNCHANGED <<msgFrame, nOps, contacts, messageRows>>

\* The caller takes the outcome of the call.
MessageReturn(p) ==
    /\ mcalls[p].pc = "done"
    /\ mcalls' = [mcalls EXCEPT ![p] = MessageCallIdle]
    /\ UNCHANGED <<msgFrame, now, nOps, contacts, conversationRows, messageRows>>

(* ========================= the specification ========================== *)


\* No department service call in flight, the cache connection up.
SideIdle ==
    /\ redis = "up"
    /\ deptWrites = [d \in Departments |-> 0]
    /\ deptWriteAt = [d \in Departments |-> 0]
    /\ dcalls = [p \in Procs |-> DeptIdle]

\* No inbox view has been queried.
InboxIdle ==
    /\ inboxConversations = <<>>
    /\ inboxDepartmentUsers = <<>>
    /\ inboxResult = None

\* No refresh token stored, no AuthService call in flight.
TokenIdle ==
    /\ refreshTokens = {}
    /\ nextTokenId = 1
    /\ redeemed = <<>>
    /\ tcalls = <<>>

\* No invitation, no user, no membership row, no accept call in flight.
InviteIdle ==
    /\ invitations = <<>>
    /\ users = {}
    /\ memberships = {}
    /\ icalls = <<>>

\* No contact, no conversation and no message of an inbound sender.
MsgIdle ==
    /\ contacts = {}
    /\ conversationRows = {}
    /\ messageRows = {}
    /\ mcalls = <<>>

ExtIdle ==
    /\ InboxIdle
    /\ TokenIdle
    /\ InviteIdle
    /\ MsgIdle

AuthIdle ==
    /\ accountUser = <<>>
    /\ workspaceUser = <<>>
    /\ departmentUser = <<>>
    /\ req = None
    /\ tenant = None
    /\ res = None
    /\ stage = "none"

Init ==
    /\ conversation \in [ConversationIds ->
            [status : validStates, statusUpdatedAt : {0}, lastMessageAt : {0},
             assignedUserId : {NULL}, assignedAt : {NULL}]]
    /\ statusWrites = [c \in ConversationIds |-> 0]
    /\ messages = [c \in ConversationIds |-> 0]
    /\ cache = <<>>
    /\ now = 0
    /\ nOps = 0
    /\ calls = [p \in Procs |-> Idle]
    /\ AuthIdle
    /\ SideIdle
    /\ ExtIdle

Next ==
    \E p \in Procs :
        \/ \E c \in ConversationIdArgs, s \in StateArgs, scope \in ScopeArgs :
                SetConversationState(p, c, s, scope[1], scope[2])
        \/ \E c \in ConversationIdArgs, scope \in ScopeArgs :
                markAsAssigned(p, c, scope[1], scope[2])
        \/ \E c \in ConversationIdArgs, scope \in ScopeArgs :
                markAsEscalated(p, c, scope[1], scope[2])
        \/ \E c \in ConversationIdArgs, scope \in ScopeArgs :
                markAsClosed(p, c, scope[1], scope[2])
        \/ \E c \in ConversationIdArgs, scope \in ScopeArgs :
                markAsTodo(p, c, scope[1], scope[2])
        \/ SetVerify(p)
        \/ SetUpdate(p)
        \/ SetInvalidate(p)
        \/ Return(p)
        \/ \E w \in InboundWorkspaceArgs : CreateInboundMessage(p, w)
        \/ InboundFind(p)
        \/ InboundMessage(p)
        \/ InboundNormalize(p)
        \/ InboundTouch(p)
        \/ InboundReload(p)

Spec == Init /\ [][Next]_vars

ConvIdle ==
    /\ conversation = [c \in ConversationIds |->
            [status |-> "TODO", statusUpdatedAt |-> 0, lastMessageAt |-> 0,
             assignedUserId |-> NULL, assignedAt |-> NULL]]
    /\ statusWrites = [c \in ConversationIds |-> 0]
    /\ messages = [c \in ConversationIds |-> 0]
    /\ cache = <<>>
    /\ now = 0
    /\ nOps = 0
    /\ calls = [p \in Procs |-> Idle]

\* A request arrives at tenantMiddleware. The rows are those of the regular
\* user; an AppOwner is in no membership table. Rows of entities the request
\* does not name are never looked up, so they are left out. A request that
\* names a team names nothing else.
InitAuth ==
    /\ ConvIdle
    /\ SideIdle
    /\ ExtIdle
    /\ req \in Requests
    /\ req.teamId # NULL =>
            /\ req.departmentId = NULL
            /\ req.accountId = NULL
            /\ req.workspaceId = NoWorkspaceId
    /\ accountUser \in [Accounts -> AccountRows]
    /\ workspaceUser \in [Workspaces -> WorkspaceRows]
    /\ departmentUser \in [Departments -> DepartmentRows]
    /\ \A a \in Accounts :
         (req.user.isAppOwner \/ a \notin NamedAccounts(req)) => accountUser[a] = None
    /\ \A w \in Workspaces :
         (req.user.isAppOwner \/ w \notin NamedWorkspaces(req)) => workspaceUser[w] = None
    /\ \A d \in Departments :
         (req.user.isAppOwner \/ d \notin NamedDepartments(req)) => departmentUser[d] = None
    /\ tenant = None
    /\ res = None
    /\ stage = "tenantMiddleware"

NextAuth ==
    \/ TenantMiddleware
    \/ RequireRole

SpecAuth == InitAuth /\ [][NextAuth]_vars

\* Identifiers of rows that are in no table.
MissingAccountId == "a9"
MissingWorkspaceId == "w9"
MissingDepartmentId == "d9"

\* A request may name its workspace in several places at once, with different
\* values, and may name a workspace that does not exist.
DeclaredWorkspaceIdArgs ==
    [query : Workspaces \cup {NULL, MissingWorkspaceId},
     header : {NULL, "w1"},
     params : Workspaces \cup {NULL, MissingWorkspaceId},
     body : Workspaces \cup {NULL, MissingWorkspaceId}]

DeclaredRoleArgs ==
    {{UserRole.APP_OWNER, UserRole.ACCOUNT_ADMIN, UserRole.ACCOUNT_MEMBER},
     {UserRole.ACCOUNT_ADMIN, UserRole.WORKSPACE_ADMIN},
     {UserRole.WORKSPACE_MEMBER},
     {UserRole.DEPARTMENT_MEMBER}}

DeclaredRequests ==
    [user : Principals,
     accountId : AccountIdArgs \cup {MissingAccountId},
     workspaceId : DeclaredWorkspaceIdArgs,
     departmentId : DepartmentIdArgs \cup {MissingDepartmentId},
     teamId : {NULL},
     roles : DeclaredRoleArgs]

DeclaredRows == {None, Row("ADMIN", "ACTIVE"), Row("MEMBER", "ACTIVE")}

\* A request arrives at tenantMiddleware with identifiers declared in any
\* combination of places; the rows are ACTIVE rows of the regular user in the
\* entities the request names.
InitDeclared ==
    /\ ConvIdle
    /\ SideIdle
    /\ ExtIdle
    /\ req \in DeclaredRequests
    /\ accountUser \in [Accounts -> DeclaredRows]
    /\ workspaceUser \in [Workspaces -> DeclaredRows]
    /\ departmentUser \in [Departments -> {None, Row("DEPARTMENT_MANAGER", "ACTIVE")}]
    /\ \A a \in Accounts :
         (req.user.isAppOwner \/ a \notin NamedAccounts(req)) => accountUser[a] = None
    /\ \A w \in Workspaces :
         (req.user.isAppOwner \/ w \notin NamedWorkspaces(req)) => workspaceUser[w] = None
    /\ \A d \in Departments :
         (req.user.isAppOwner \/ d \notin NamedDepartments(req)) => departmentUser[d] = None
    /\ tenant = None
    /\ res = None
    /\ stage = "tenantMiddleware"

SpecDeclared == InitDeclared /\ [][NextAuth]_vars

\* The conversation service calls with their cache: state changes and reads,
\* assignments, and a cache connection that may drop.
UserIdArgs == {"u1", "u9"}
CacheScopeArgs == {<<"w1", "a1">>, <<NULL, NULL>>}

InitCache ==
    /\ conversation \in [ConversationIds ->
            [status : validStates, statusUpdatedAt : {0}, lastMessageAt : {0},
             assignedUserId : {NULL}, assignedAt : {NULL}]]
    /\ statusWrites = [c \in ConversationIds |-> 0]
    /\ messages = [c \in ConversationIds |-> 0]
    /\ cache = <<>>
    /\ now = 0
    /\ nOps = 0
    /\ calls = [p \in Procs |-> Idle]
    /\ AuthIdle
    /\ SideIdle
    /\ ExtIdle

NextCache ==
    \/ \E p \in Procs :
        \/ \E c \in ConversationIdArgs, s \in validStates, scope \in CacheScopeArgs :
                SetConversationState(p, c, s, scope[1], scope[2])
        \/ \E c \in ConversationIdArgs, scope \in CacheScopeArgs :
                markAsAssigned(p, c, scope[1], scope[2])
        \/ \E c \in ConversationIdArgs, scope \in CacheScopeArgs :
                markAsEscalated(p, c, scope[1], scope[2])
        \/ \E c \in ConversationIdArgs, scope \in CacheScopeArgs :
                markAsClosed(p, c, scope[1], scope[2])
        \/ \E c \in ConversationIdArgs, scope \in CacheScopeArgs :
                markAsTodo(p, c, scope[1], scope[2])
        \/ SetVerify(p)
        \/ SetUpdate(p)
        \/ SetInvalidate(p)
        \/ Return(p)
        \/ \E c \in ConversationIdArgs, scope \in CacheScopeArgs :
                GetConversationState(p, c, scope[1], scope[2])
        \/ GetCache(p)
        \/ GetStore(p)
        \/ GetSetex(p)
        \/ \E c \in ConversationIdArgs, u \in UserIdArgs :
                AssignConversationToUser(p, c, u, "w1", "a1")
        \/ AssignUpdate(p)
        \/ \E c \in ConversationIdArgs : UnassignConversation(p, c, "w1", "a1")
        \/ UnassignUpdate(p)
        \/ InvalidateConversationCache(p)
    \/ RedisDown
    \/ RedisUp

SpecCache == InitCache /\ [][NextCache]_vars

\* The users and scopes the assignment and access services are called with.
AccessUserArgs == {"u1", "u2", "u9"}
AccessScopeArgs == {<<"w1", "a1">>, <<"w2", "a2">>, <<NULL, NULL>>}

InitAccess ==
    /\ conversation = [c \in ConversationIds |->
            [status |-> "TODO", statusUpdatedAt |-> 0, lastMessageAt |-> 0,
             assignedUserId |-> NULL, assignedAt |-> NULL]]
    /\ statusWrites = [c \in ConversationIds |-> 0]
    /\ messages = [c \in ConversationIds |-> 0]
    /\ cache = <<>>
    /\ now = 0
    /\ nOps = 0
    /\ calls = [p \in Procs |-> Idle]
    /\ AuthIdle
    /\ SideIdle
    /\ ExtIdle

NextAccess ==
    \E p \in Procs :
        \/ \E c \in ConversationIdArgs, u \in AccessUserArgs, scope \in AccessScopeArgs :
                AssignConversationToUser(p, c, u, scope[1], scope[2])
        \/ AssignUpdate(p)
        \/ \E c \in ConversationIdArgs, scope \in AccessScopeArgs :
                UnassignConversation(p, c, scope[1], scope[2])
        \/ UnassignUpdate(p)
        \/ InvalidateConversationCache(p)
        \/ \E c \in ConversationIdArgs, u \in AccessUserArgs, scope \in AccessScopeArgs :
                canUserViewConversation(p, u, c, scope[1], scope[2])
        \/ \E c \in ConversationIdArgs, scope \in AccessScopeArgs :
                getConversationVisibilityScope(p, c, scope[1], scope[2])
        \/ AccessCacheGet(p)
        \/ AccessSetex(p)
        \/ Return(p)

SpecAccess == InitAccess /\ [][NextAccess]_vars

\* The store an inbox view is queried on: each conversation belongs to a
\* workspace and carries the department it is routed to, and the user u1 has
\* any combination of department rows.
InitInbox ==
    /\ ConvIdle
    /\ AuthIdle
    /\ SideIdle
    /\ inboxConversations \in [InboxConversationIds ->
            [workspaceId : {"w1", "w2"}, status : {"ESCALATED", "TODO"},
             departmentId : InboxDepartments \cup {NULL}]]
    /\ \A c \in InboxConversationIds :
            inboxConversations[c].departmentId # NULL =>
                InboxDepartmentWorkspace[inboxConversations[c].departmentId]
                    = inboxConversations[c].workspaceId
    /\ inboxDepartmentUsers \in [InboxDepartments ->
            {NULL, "HUMAN_SUPPORT", "DEPARTMENT_MANAGER"}]
    /\ inboxResult = None
    /\ TokenIdle
    /\ InviteIdle
    /\ MsgIdle

NextInbox ==
    \E u \in {"u1", "u2"}, w \in {"w1", "w2"} : getEscalatedInbox(u, w)

SpecInbox == InitInbox /\ [][NextInbox]_vars

\* The tokens a client may present: the one issued at login in second 0, the
\* ones a refresh issues later, and one that was never issued.
TokenArgs ==
    {generateRefreshToken(u, t) : u \in {"u1"}, t \in TokenClock}
    \cup {generateRefreshToken("u9", 0)}

\* login has just stored one refresh token, for a user or for an AppOwner.
InitToken ==
    /\ ConvIdle
    /\ AuthIdle
    /\ SideIdle
    /\ InboxIdle
    /\ InviteIdle
    /\ MsgIdle
    /\ \E table \in TokenTables :
         refreshTokens = {[id |-> 0, table |-> table, userId |-> "u1",
                           token |-> generateRefreshToken("u1", 0),
                           expiresAt |-> RefreshTokenLifetime]}
    /\ nextTokenId = 1
    /\ redeemed = [t \in TokenArgs |-> 0]
    /\ tcalls = [p \in Procs |-> TokenCallIdle]

NextToken ==
    \/ \E p \in Procs :
        \/ \E t \in TokenArgs : RefreshToken(p, t)
        \/ RefreshFindAppOwner(p)
        \/ RefreshDelete(p)
        \/ RefreshCreate(p)
        \/ TokenReturn(p)
    \/ TokenTick

SpecToken == InitToken /\ [][NextToken]_vars

\* inviteUserToAccount has invited the address e1 to the accounts a1 and a2:
\* an invitation and an INVITED account_users row each. The invitation of a2
\* is an older one, stored under the hash of its token.
InitInvite ==
    /\ ConvIdle
    /\ AuthIdle
    /\ SideIdle
    /\ InboxIdle
    /\ TokenIdle
    /\ MsgIdle
    /\ invitations =
        [i \in InvitationIds |->
            [email |-> "e1", accountId |-> IF i = "i1" THEN "a1" ELSE "a2",
             scope |-> "ACCOUNT", targetId |-> NULL,
             tokenHash |-> IF i = "i1" THEN "t1" ELSE _hashToken("t2"),
             expiresAt |-> InvitationLifetime, status |-> "INVITED", accepts |-> 0]]
    /\ users = {}
    /\ memberships =
        {[table |-> "accountUser", email |-> "e1", accountId |-> invitations[i].accountId,
          invitationId |-> i, status |-> "INVITED", userId |-> NULL] :
            i \in InvitationIds}
    /\ icalls = [p \in Procs |-> InviteCallIdle]

NextInvite ==
    \/ \E p \in Procs :
        \/ \E t \in InviteTokens : acceptInvitationAndRegisterUser(p, t)
        \/ AcceptFindHashed(p)
        \/ AcceptExpire(p)
        \/ AcceptFindUser(p)
        \/ AcceptCreateUser(p)
        \/ AcceptActivate(p)
        \/ AcceptMark(p)
        \/ InviteReturn(p)
    \/ InviteTick

SpecInvite == InitInvite /\ [][NextInvite]_vars

\* The senders are new to the system, or e1 has written to w1 before.
InitMessage ==
    /\ ConvIdle
    /\ AuthIdle
    /\ SideIdle
    /\ InboxIdle
    /\ TokenIdle
    /\ InviteIdle
    /\ \/ /\ contacts = {}
          /\ conversationRows = {}
          /\ messageRows = {}
       \/ /\ contacts = {[id |-> newContactId("e1"), email |-> "e1"]}
          /\ conversationRows = {}
          /\ messageRows = {}
       \/ /\ contacts = {[id |-> newContactId("e1"), email |-> "e1"]}
          /\ conversationRows = {[id |-> 1, workspaceId |-> "w1",
                                  contactId |-> newContactId("e1"), lastMessageAt |-> 0]}
          /\ messageRows = {[id |-> 1, conversationId |-> 1, fromEmail |-> "e1"]}
    /\ mcalls = [p \in Procs |-> MessageCallIdle]

NextMessage ==
    \E p \in Procs :
        \/ \E w \in InboundWorkspaceArgs, e \in SenderEmails :
            \/ createMockMessage(p, w, e)
            \/ createInboundMessageFrom(p, w, e)
        \/ MessageFindContact(p)
        \/ MessageCreateContact(p)
        \/ MessageFindConversation(p)
        \/ MessageCreateConversation(p)
        \/ MessageCreate(p)
        \/ MessageTouch(p)
        \/ MessageReturn(p)

SpecMessage == InitMessage /\ [][NextMessage]_vars

\* The department services with their cache: membership writes, the lookups
\* that cache what they read, a clock and a cache connection that may drop.
CallerArgs ==
    {[userId |-> "u2", accountRole |-> "ADMIN", workspaceRole |-> NULL],
     [userId |-> "u1", accountRole |-> "MEMBER", workspaceRole |-> "MEMBER"]}
DeptRoleArgs == {"DEPARTMENT_MANAGER", "MEMBER", "OWNER"}
DeptScopeArgs == {<<"w1", "a1">>}

InitDept ==
    /\ ConvIdle
    /\ SideIdle
    /\ ExtIdle
    /\ accountUser = <<>>
    /\ workspaceUser = <<>>
    /\ departmentUser \in [Departments ->
            {None, Row("DEPARTMENT_MANAGER", "ACTIVE"), Row("MEMBER", "ACTIVE")}]
    /\ req = None
    /\ tenant = None
    /\ res = None
    /\ stage = "none"

NextDept ==
    \/ \E p \in Procs :
        \/ \E d \in Departments, scope \in DeptScopeArgs, role \in DeptRoleArgs,
              callerInfo \in CallerArgs :
                AddUserToDepartment(p, d, scope[1], scope[2],
                                    [userId |-> "u1", role |-> role], callerInfo)
        \/ \E d \in Departments, scope \in DeptScopeArgs, role \in DeptRoleArgs,
              callerInfo \in CallerArgs :
                UpdateDepartmentUserRole(p, d, "u1", scope[1], scope[2],
                                         [role |-> role], callerInfo)
        \/ \E d \in Departments, scope \in DeptScopeArgs, callerInfo \in CallerArgs :
                RemoveUserFromDepartment(p, d, "u1", scope[1], scope[2], callerInfo)
        \/ DeptExists(p)
        \/ DeptStoreWrite(p)
        \/ DeptDel(p)
        \/ DeptReturn(p)
        \/ \E op \in FlagOps \cup ListOps, d \in Departments, scope \in DeptScopeArgs :
                DeptLookup(p, op, "u1", d, scope[1], scope[2])
        \/ DeptCacheGet(p)
        \/ DeptStoreRead(p)
        \/ DeptSetex(p)
    \/ Tick
    \/ RedisDown
    \/ RedisUp

SpecDept == InitDept /\ [][NextDept]_vars

(* ====================== the conversation claims ======================= *)

\* The legal targets of each status, as the state table gives them.
LegalTargets(s) ==
    CASE s = "TODO"      -> {"ASSIGNED", "ESCALATED"}
      [] s = "ASSIGNED"  -> {"CLOSED"}
      [] s = "ESCALATED" -> {"ASSIGNED"}
      [] s = "CLOSED"    -> {"TODO", "ASSIGNED"}
      [] OTHER           -> {}

\* The scope a call passes is the conversation's own workspace and account.
CorrectlyScoped(call) ==
    /\ call.conversationId \in ConversationIds
    /\ call.workspaceId = ConversationWorkspace[call.conversationId]
    /\ call.accountId = WorkspaceAccount[ConversationWorkspace[call.conversationId]]

\* A finished direct call of setConversationState.
SetDone(p) ==
    /\ calls[p].op = "setConversationState"
    /\ calls[p].pc = "done"

Writes(call) == IF call.wrote THEN 1 ELSE 0

\* Nothing but the call itself updated the status since the call read it.
NoOtherWriterSinceRead(call) ==
    statusWrites[call.conversationId] = call.seen + Writes(call)

\* C1: for every status s and every target t of the four, setConversationState on
\* an existing, correctly scoped conversation with no concurrent writer succeeds
\* and persists status = t if and only if t is a legal target of s.
C1_SetStateSucceedsIffLegal ==
    \A p \in Procs :
        LET call == calls[p] IN
        ( /\ SetDone(p)
          /\ call.newState \in validStates
          /\ CorrectlyScoped(call)
          /\ NoOtherWriterSinceRead(call) )
        => /\ call.current \in validStates
           /\ (call.result = "ok") <=> (call.newState \in LegalTargets(call.current))
           /\ call.result = "ok" =>
                /\ call.wrote
                /\ conversation[call.conversationId].status = call.newState
           /\ call.result # "ok" =>
                /\ ~call.wrote
                /\ conversation[call.conversationId].status = call.current

\* C1 witness: a reopening CLOSED -> TODO has succeeded and is persisted, and a
\* second call with the illegal pair TODO -> CLOSED has been refused.
C1_Witness ==
    \E p, q \in Procs :
        /\ SetDone(p) /\ CorrectlyScoped(calls[p])
        /\ calls[p].current = "CLOSED" /\ calls[p].newState = "TODO"
        /\ calls[p].result = "ok"
        /\ SetDone(q) /\ CorrectlyScoped(calls[q])
        /\ calls[q].current = "TODO" /\ calls[q].newState = "CLOSED"
        /\ calls[q].result = "Invalid state transition"
        /\ conversation["c1"].status = "TODO"

\* C2: in every execution, concurrent calls included, each change of the persisted
\* status goes from a status s to a legal target of s.
C2_EveryStatusChangeIsLegal ==
    [][\A c \in ConversationIds :
         conversation'[c].status # conversation[c].status
         => conversation'[c].status \in LegalTargets(conversation[c].status)]_vars

\* Two finished calls setConversationState(c, CLOSED), both started while the
\* conversation was ASSIGNED, with no other update of its status.
TwoCloseCalls(p, q) ==
    /\ p # q
    /\ SetDone(p) /\ SetDone(q)
    /\ CorrectlyScoped(calls[p]) /\ CorrectlyScoped(calls[q])
    /\ calls[p].conversationId = calls[q].conversationId
    /\ calls[p].newState = "CLOSED" /\ calls[q].newState = "CLOSED"
    /\ calls[p].atCall.status = "ASSIGNED" /\ calls[q].atCall.status = "ASSIGNED"
    /\ calls[p].atCall.writes = calls[q].atCall.writes
    /\ statusWrites[calls[p].conversationId]
         = calls[p].atCall.writes + Writes(calls[p]) + Writes(calls[q])

\* C3 as stated: the outcome of the two calls is either one success and one
\* ConcurrentModification error, or two successes with final status CLOSED.
C3_Original ==
    \A p, q \in Procs :
        TwoCloseCalls(p, q) =>
            \/ /\ calls[p].result = "ok"
               /\ calls[q].result = "ConcurrentModification"
            \/ /\ calls[q].result = "ok"
               /\ calls[p].result = "ConcurrentModification"
            \/ /\ calls[p].result = "ok" /\ calls[q].result = "ok"
               /\ conversation[calls[p].conversationId].status = "CLOSED"

\* C3 as amended: the final status is CLOSED, and either both calls succeed (both
\* read ASSIGNED) or one succeeds and the other, reading CLOSED, is refused with
\* the invalid-transition error; no call ends with ConcurrentModification.
C3_TwoCloseCalls ==
    \A p, q \in Procs :
        TwoCloseCalls(p, q) =>
            /\ conversation[calls[p].conversationId].status = "CLOSED"
            /\ \/ calls[p].result = "ok" /\ calls[q].result = "ok"
               \/ /\ calls[p].result = "ok"
                  /\ calls[q].result = "Invalid state transition"
                  /\ calls[q].current = "CLOSED"
               \/ /\ calls[q].result = "ok"
                  /\ calls[p].result = "Invalid state transition"
                  /\ calls[p].current = "CLOSED"

\* C3 witness: the two calls overlapped and the later reader was refused.
C3_Witness ==
    \E p, q \in Procs :
        /\ TwoCloseCalls(p, q)
        /\ calls[p].result = "ok"
        /\ calls[q].result = "Invalid state transition"

\* A finished createInboundMessage that stored its message, with no update of
\* the status by any other call since it read the conversation.
InboundDone(p) ==
    /\ calls[p].op = "createInboundMessage"
    /\ calls[p].pc = "done"
    /\ calls[p].result = "ok"
    /\ NoOtherWriterSinceRead(calls[p])

\* C10: when createInboundMessage returns for a conversation that was CLOSED the
\* persisted status is TODO, and for one that was ESCALATED it is still ESCALATED.
C10_InboundNormalization ==
    \A p \in Procs :
        InboundDone(p) =>
            /\ calls[p].found.status = "CLOSED"
                 => conversation[calls[p].conversationId].status = "TODO"
            /\ calls[p].found.status = "ESCALATED"
                 => conversation[calls[p].conversationId].status = "ESCALATED"

\* C11: when createInboundMessage returns for a conversation that was ASSIGNED the
\* persisted status is TODO, and for one that was TODO it is still TODO.
C11_InboundAssignedToTodo ==
    \A p \in Procs :
        InboundDone(p) =>
            /\ calls[p].found.status = "ASSIGNED"
                 => conversation[calls[p].conversationId].status = "TODO"
            /\ calls[p].found.status = "TODO"
                 => conversation[calls[p].conversationId].status = "TODO"

\* The two refusals setConversationState makes on its own arguments.
RefusedTarget == {"Invalid state", "Invalid state transition"}

\* C13: the step in which setConversationState fails because newState is not one
\* of the four values, or because the transition is not legal, leaves the
\* conversation as it was, and the failing call has made no update before it.
C13_RefusedSetChangesNothing ==
    [][\A p \in Procs :
         ( /\ calls'[p] # calls[p]
           /\ calls'[p].op = "setConversationState"
           /\ calls'[p].pc = "done"
           /\ calls'[p].result \in RefusedTarget )
         => /\ conversation' = conversation
            /\ ~calls'[p].wrote]_vars

\* C13 witness: one call has been refused for its target ARCHIVED and another
\* for an illegal transition, and the conversation is as it was at both calls.
C13_Witness ==
    \E p, q \in Procs :
        /\ SetDone(p) /\ calls[p].result = "Invalid state"
        /\ calls[p].newState \notin validStates
        /\ SetDone(q) /\ calls[q].result = "Invalid state transition"
        /\ \A r \in {p, q} :
              /\ conversation[calls[r].conversationId].status = calls[r].atCall.status
              /\ conversation[calls[r].conversationId].statusUpdatedAt
                    = calls[r].atCall.statusUpdatedAt

\* C19: setConversationState changes a conversation only when the scope passed is
\* the conversation's own workspace and that workspace's account; with any other
\* scope the call fails and makes no update.
C19_OnlyOwnScopeChanges ==
    \A p \in Procs :
        (SetDone(p) /\ ~CorrectlyScoped(calls[p])) =>
            /\ calls[p].result # "ok"
            /\ ~calls[p].wrote

AssignOps == {"assignConversationToUser", "unassignConversation"}

\* C12: no step of assignConversationToUser or unassignConversation changes the
\* status or the statusUpdatedAt of a conversation; only assignedUserId and
\* assignedAt move.
C12_AssignmentKeepsStatus ==
    [][\A p \in Procs :
        (calls'[p] # calls[p] /\ calls[p].op \in AssignOps)
            => \A c \in ConversationIds :
                /\ conversation'[c].status = conversation[c].status
                /\ conversation'[c].statusUpdatedAt = conversation[c].statusUpdatedAt
                /\ conversation'[c].lastMessageAt = conversation[c].lastMessageAt]_vars

\* An assignment has returned and the conversation is assigned while in TODO.
C12_Witness ==
    \E p \in Procs :
        /\ calls[p].op = "assignConversationToUser"
        /\ calls[p].pc = "done"
        /\ calls[p].result = "ok"
        /\ conversation[calls[p].conversationId].assignedUserId = "u1"
        /\ conversation[calls[p].conversationId].status = "TODO"

\* What the next getConversationState(c) returns as the status, with the cache up.
NextStateRead(c) ==
    IF Live(<<"conversation_state", c>>)
    THEN cache[<<"conversation_state", c>>].value.status
    ELSE conversation[c].status

Quiet(p) == \A q \in Procs \ {p} : calls[q].pc \in {"idle", "done"}

\* The cache holds an entry under the key that was read from the store before
\* the latest status write of conversation c.
StaleEntry(key, c) == Live(key) /\ cache[key].asOf < statusWrites[c]

\* C16: once a successful setConversationState(c, t) has returned, its cache
\* deletes went through, it is the latest write and no other call is in flight,
\* the cache holds no conversation_state entry of c and no listing entry of the
\* workspace from before the write, and the next getConversationState(c)
\* returns t.
C16_NoStaleStateAfterSet ==
    \A p \in Procs :
        (/\ SetDone(p)
         /\ calls[p].result = "ok"
         /\ calls[p].wrote
         /\ ~calls[p].cacheError
         /\ calls[p].workspaceId # NULL
         /\ conversation[calls[p].conversationId].status = calls[p].newState
         /\ Quiet(p))
            => /\ ~StaleEntry(<<"conversation_state", calls[p].conversationId>>,
                              calls[p].conversationId)
               /\ ~StaleEntry(<<"conversations:workspace", calls[p].workspaceId>>,
                              calls[p].conversationId)
               /\ NextStateRead(calls[p].conversationId) = calls[p].newState

\* C18: a getConversationState whose cache read or cache write failed still
\* returns the stored state.
C18_LookupSurvivesCacheFailure ==
    \A p \in Procs :
        (/\ calls[p].op = "getConversationState"
         /\ calls[p].pc = "done"
         /\ calls[p].cacheError)
            => /\ calls[p].result = "ok"
               /\ calls[p].value.status = conversation[calls[p].conversationId].status

\* The error _verifyConversationChain throws for the arguments of a call, NULL
\* when it throws none.
ChainError(call) ==
    verifyConversationChain(call.conversationId, call.workspaceId, call.accountId).error

\* C25 as stated: a setConversationState whose conversation does not resolve in
\* the scope passed reports that, whatever newState is.
C25_Original ==
    \A p \in Procs :
        (SetDone(p) /\ ChainError(calls[p]) # NULL)
            => calls[p].result = ChainError(calls[p])

\* C25: setConversationState looks at newState first: a newState that is not one
\* of the four values is reported as an invalid state whatever the conversation
\* id and scope are; with a valid newState a conversation that does not resolve
\* in the scope is reported before the transition is looked at.
C25_StateCheckedFirst ==
    \A p \in Procs :
        SetDone(p) =>
            /\ calls[p].newState \notin validStates
                 => calls[p].result = "Invalid state"
            /\ (calls[p].newState \in validStates /\ ChainError(calls[p]) # NULL)
                 => calls[p].result = ChainError(calls[p])

\* A call with an invalid newState and a scope the conversation is not in has
\* ended with the invalid state error.
C25_Witness ==
    \E p \in Procs :
        /\ SetDone(p)
        /\ calls[p].newState \notin validStates
        /\ ChainError(calls[p]) # NULL
        /\ calls[p].result = "Invalid state"

\* C26: while createInboundMessage has stored its message and has not returned,
\* the conversation is not in the CLOSED or ASSIGNED status the call found it in.
C26_MappingBeforeAppend ==
    \A p \in Procs :
        (/\ calls[p].op = "createInboundMessage"
         /\ calls[p].pc \in {"normalize", "touch", "reload"})
            => ~(/\ calls[p].found.status \in {"CLOSED", "ASSIGNED"}
                 /\ conversation[calls[p].conversationId].status = calls[p].found.status)

\* C27: the normalization step of createInboundMessage never ends the call: it
\* goes on to the lastMessageAt update, or into the gate, with the stored message
\* and the conversation as they were; a throw of the gate inside it goes on to
\* the lastMessageAt update too; a status outside the four has no target.
C27_NormalizationNeverFails ==
    [][/\ \A p \in Procs :
            (/\ calls[p].op = "createInboundMessage"
             /\ calls[p].pc = "normalize"
             /\ calls'[p] # calls[p])
                => /\ calls'[p].pc \in {"touch", "verify"}
                   /\ conversation' = conversation
                   /\ messages' = messages
       /\ \A p \in Procs :
            (/\ calls[p].op = "createInboundMessage"
             /\ calls[p].pc = "verify"
             /\ calls'[p] # calls[p]
             /\ calls'[p].pc # "update")
                => /\ calls'[p].pc = "touch"
                   /\ conversation' = conversation
                   /\ messages' = messages
       /\ \A s \in StateArgs \ validStates : targetState(s) = NULL]_vars

\* createInboundMessage has returned its message for a conversation it found
\* CLOSED or ASSIGNED; the normalization failed and the status is as it was.
C27_Witness ==
    \E p \in Procs :
        /\ calls[p].op = "createInboundMessage"
        /\ calls[p].pc = "done"
        /\ calls[p].result = "ok"
        /\ calls[p].found.status \in {"CLOSED", "ASSIGNED"}
        /\ messages[calls[p].conversationId] > 0
        /\ statusWrites[calls[p].conversationId] = calls[p].seen
        /\ conversation[calls[p].conversationId].status = calls[p].found.status

RECURSIVE ReachWithin(_, _)
ReachWithin(S, n) ==
    IF n = 0
    THEN S
    ELSE ReachWithin(S \cup UNION {VALID_TRANSITIONS[s] : s \in S}, n - 1)

ReachableFrom(s) == ReachWithin(VALID_TRANSITIONS[s], Cardinality(validStates))

\* C29: every status has at least one accepted target, and every other status
\* is reached from it by a chain of accepted transitions; so it is for the
\* status each conversation is in.
C29_NoDeadEnd ==
    /\ \A s \in validStates :
        /\ VALID_TRANSITIONS[s] # {}
        /\ validStates \ {s} \subseteq ReachableFrom(s)
    /\ \A c \in ConversationIds :
        validStates \ {conversation[c].status} \subseteq
            ReachableFrom(conversation[c].status)

\* An accepted setConversationState has taken a conversation out of CLOSED.
C29_Witness ==
    \E p \in Procs :
        /\ SetDone(p)
        /\ calls[p].result = "ok"
        /\ calls[p].current = "CLOSED"
        /\ conversation[calls[p].conversationId].status # "CLOSED"

\* C30: no step of setConversationState, or of a markAs method, changes the
\* assignedUserId, the assignedAt or the lastMessageAt of a conversation.
C30_StateChangeKeepsAssignment ==
    [][\A p \in Procs :
        (calls'[p] # calls[p] /\ calls[p].op = "setConversationState")
            => \A c \in ConversationIds :
                /\ conversation'[c].assignedUserId = conversation[c].assignedUserId
                /\ conversation'[c].assignedAt = conversation[c].assignedAt
                /\ conversation'[c].lastMessageAt = conversation[c].lastMessageAt]_vars

\* A status change has gone through on a conversation that is assigned to u1.
C30_Witness ==
    \E p \in Procs :
        /\ SetDone(p)
        /\ calls[p].result = "ok"
        /\ calls[p].wrote
        /\ conversation[calls[p].conversationId].assignedUserId = "u1"

(* ======================= the department claims ======================== *)

\* A finished write of the department service that reported success.
DeptWriteDone(p) ==
    /\ dcalls[p].op \in DeptWriteOps
    /\ dcalls[p].pc = "done"
    /\ dcalls[p].wrote

\* C14: once 300 seconds have passed since a successful updateDepartmentUserRole
\* or removeUserFromDepartment for u1 in a department, which is still the latest
\* write there, an isDepartmentManager(u1, d) answered from the cache returns
\* what the store holds.
C14_NoStaleAnswerAfterTTL ==
    [][\A p \in Procs, q \in Procs :
        (/\ dcalls[p].op = "isDepartmentManager"
         /\ dcalls[p].pc = "cache"
         /\ dcalls'[p].pc = "done"
         /\ dcalls'[p].result = "ok"
         /\ DeptWriteDone(q)
         /\ dcalls[q].op \in {"updateDepartmentUserRole", "removeUserFromDepartment"}
         /\ dcalls[q].result = "ok"
         /\ dcalls[q].departmentId = dcalls[p].departmentId
         /\ dcalls[q].writeNo = deptWrites[dcalls[p].departmentId]
         /\ now >= deptWriteAt[dcalls[p].departmentId] + TTL)
            => dcalls'[p].value =
                  StoreValue("isDepartmentManager", dcalls[p].userId,
                             dcalls[p].departmentId)]_vars

\* The cache keys of the lists of a department.
ListKeys(d) ==
    {<<"department_users:department", d>>, <<"department_managers", d>>,
     <<"department_human_support", d>>}

\* C15: once addUserToDepartment, updateDepartmentUserRole or
\* removeUserFromDepartment has returned successfully, none of the three list
\* keys of the department holds a value that was read before the write.
C15_ListKeysFreshAfterWrite ==
    \A p \in Procs :
        (DeptWriteDone(p) /\ dcalls[p].result = "ok")
            => \A key \in ListKeys(dcalls[p].departmentId) :
                  ~(Live(key) /\ cache[key].asOf < dcalls[p].writeNo)

\* C17: a department write whose store write went through reports success,
\* whatever happens to the cache deletes after it.
C17_WriteSucceedsDespiteCache ==
    \A p \in Procs : DeptWriteDone(p) => dcalls[p].result = "ok"

(* ==================== the tenant resolution claims ==================== *)

\* The workspace id a request declares, whatever the place.
DeclaredWorkspaceId(r) ==
    Or(r.workspaceId.query, Or(r.workspaceId.header,
       Or(r.workspaceId.params, r.workspaceId.body)))

\* The request has left the two middlewares: handed on, or answered.
Resolved == stage \in {"next", "responded"}

\* C4: a request that declares accountId = A and workspaceId = W, where W's own
\* accountId is not A, is rejected for every principal; it never proceeds.
C4_ScopeMismatchRejected ==
    LET w == DeclaredWorkspaceId(req) IN
    ( /\ req.accountId # NULL
      /\ w \in Workspaces
      /\ WorkspaceAccount[w] # req.accountId )
    => stage # "next"

\* C5: an AppOwner never ends resolution with a tenant context that holds an
\* account, or a workspace of an account, whose appOwnerId is not its own id.
C5_AppOwnerContainment ==
    (stage = "next" /\ req.user.isAppOwner) =>
        /\ tenant.accountId \in Accounts
             => AccountOwner[tenant.accountId] = req.user.id
        /\ tenant.workspaceId \in Workspaces
             => AccountOwner[WorkspaceAccount[tenant.workspaceId]] = req.user.id

C7_ElevationRule ==
    LET d == resolveDepartmentId(req) IN
    ( /\ Resolved
      /\ ~req.user.isAppOwner
      /\ req.roles = {UserRole.DEPARTMENT_MANAGER}
      /\ d \in Departments
      /\ departmentUser[d] = None
      /\ DeclaredWorkspaceId(req) \in {NULL, DepartmentWorkspace[d]}
      /\ req.accountId \in {NULL, WorkspaceAccount[DepartmentWorkspace[d]]}
      /\ accountUser[WorkspaceAccount[DepartmentWorkspace[d]]] # None
      /\ accountUser[WorkspaceAccount[DepartmentWorkspace[d]]].status = "ACTIVE" )
    => /\ workspaceUser[DepartmentWorkspace[d]] = Row("ADMIN", "ACTIVE")
            => stage = "next"
       /\ workspaceUser[DepartmentWorkspace[d]] = Row("MEMBER", "ACTIVE")
            => stage = "responded"

\* A role of the required set is satisfied by a role of the tenant context, or
\* by the elevation of a workspace or account ADMIN to the department roles.
DepartmentRoles ==
    {UserRole.DEPARTMENT_MANAGER, UserRole.HUMAN_SUPPORT, UserRole.DEPARTMENT_MEMBER}

HoldsRequiredRole(t, roles) ==
    \/ UserRole.ACCOUNT_ADMIN \in roles /\ t.accountRole = "ADMIN"
    \/ UserRole.ACCOUNT_MEMBER \in roles /\ t.accountRole # NULL
    \/ UserRole.WORKSPACE_ADMIN \in roles /\ t.workspaceRole = "ADMIN"
    \/ UserRole.WORKSPACE_MEMBER \in roles /\ t.workspaceRole # NULL
    \/ /\ roles \cap DepartmentRoles # {}
       /\ t.departmentId # NULL
       /\ (t.workspaceRole = "ADMIN" \/ t.accountRole = "ADMIN")
    \/ UserRole.DEPARTMENT_MANAGER \in roles /\ t.departmentRole = "DEPARTMENT_MANAGER"
    \/ /\ UserRole.HUMAN_SUPPORT \in roles
       /\ t.departmentRole \in {"HUMAN_SUPPORT", "DEPARTMENT_MANAGER"}
    \/ UserRole.DEPARTMENT_MEMBER \in roles /\ t.departmentRole # NULL

\* The request declares no identifier at all.
DeclaresNothing(r) ==
    /\ r.accountId = NULL
    /\ DeclaredWorkspaceId(r) = NULL
    /\ r.departmentId = NULL
    /\ r.teamId = NULL

\* C8: requireRole lets a regular principal through only if a role of the
\* required set is satisfied by a role it holds in the tenant context (or by the
\* elevation rule); a request that declares no identifier is answered with the
\* 'Insufficient permissions' denial.
C8_AllowedOnlyWithRole ==
    (Resolved /\ ~req.user.isAppOwner) =>
        /\ stage = "next" => HoldsRequiredRole(tenant, req.roles)
        /\ DeclaresNothing(req) =>
              /\ stage = "responded"
              /\ res = Response(403, "Insufficient permissions")

\* C9: a membership row that is not ACTIVE gives no role to the tenant context
\* of a request that is let through: every role of the context is the role of
\* an ACTIVE row (the workspace role may also be the ADMIN an ACTIVE account
\* ADMIN is given).
C9_OnlyActiveRowsConfer ==
    (stage = "next" /\ ~req.user.isAppOwner) =>
        /\ tenant.accountRole # NULL =>
              accountUser[tenant.accountId] = Row(tenant.accountRole, "ACTIVE")
        /\ tenant.workspaceRole # NULL =>
              \/ workspaceUser[tenant.workspaceId] = Row(tenant.workspaceRole, "ACTIVE")
              \/ /\ tenant.workspaceRole = "ADMIN"
                 /\ accountUser[WorkspaceAccount[tenant.workspaceId]]
                        = Row("ADMIN", "ACTIVE")
        /\ tenant.departmentRole # NULL =>
              departmentUser[tenant.departmentId] = Row(tenant.departmentRole, "ACTIVE")

\* A regular principal that is an ACTIVE ADMIN of the account, with no workspace
\* row and no department row, on a route that requires one department role only
\* and names a department of that account.
AccountAdminOnDepartment ==
    LET d == resolveDepartmentId(req) IN
    /\ ~req.user.isAppOwner
    /\ req.roles \subseteq DepartmentRoles
    /\ d \in Departments
    /\ departmentUser[d] = None
    /\ workspaceUser[DepartmentWorkspace[d]] = None
    /\ accountUser[WorkspaceAccount[DepartmentWorkspace[d]]] = Row("ADMIN", "ACTIVE")
    /\ DeclaredWorkspaceId(req) \in {NULL, DepartmentWorkspace[d]}
    /\ req.accountId \in {NULL, WorkspaceAccount[DepartmentWorkspace[d]]}

\* C20 as stated: the account ADMIN without workspace and department rows passes
\* a check that requires only a department role.
C20_Original ==
    (Resolved /\ AccountAdminOnDepartment) => stage = "next"

\* C20 as amended: the account ADMIN without workspace and department rows is
\* refused at the workspace step, with the workspace-membership denial.
C20_AccountAdminNeedsWorkspaceRow ==
    (Resolved /\ AccountAdminOnDepartment) =>
        /\ stage = "responded"
        /\ res = Response(403,
              "Access Denied. You must be an active member of the Workspace.")

\* C20 witness: such a request for {DEPARTMENT_MANAGER} has been answered.
C20_Witness ==
    /\ AccountAdminOnDepartment
    /\ req.roles = {UserRole.DEPARTMENT_MANAGER}
    /\ stage = "responded"
    /\ res.status = 403

\* Whether a department membership of role r meets one required department role.
DepartmentRoleMeets(required, r) ==
    CASE required = UserRole.DEPARTMENT_MANAGER -> r = "DEPARTMENT_MANAGER"
      [] required = UserRole.HUMAN_SUPPORT -> r \in {"HUMAN_SUPPORT", "DEPARTMENT_MANAGER"}
      [] required = UserRole.DEPARTMENT_MEMBER -> TRUE

\* requireRole has reached its permission checks for a regular principal whose
\* tenant context holds the role of its ACTIVE row in the department, on a route
\* that requires one department role only.
OnlyDepartmentRole ==
    /\ Resolved
    /\ ~req.user.isAppOwner
    /\ tenant # None
    /\ \E required \in DepartmentRoles : req.roles = {required}
    /\ tenant.departmentRole # NULL
    /\ departmentUser[tenant.departmentId] = Row(tenant.departmentRole, "ACTIVE")

\* C21: for a principal whose only satisfying role is an ACTIVE department
\* membership of role r, a required DEPARTMENT_MANAGER is met iff r is
\* DEPARTMENT_MANAGER, a required HUMAN_SUPPORT iff r is HUMAN_SUPPORT or
\* DEPARTMENT_MANAGER, and a required DEPARTMENT_MEMBER for every r; a
\* requirement that is not met is answered with 'Insufficient permissions'.
C21_DepartmentRoleMatch ==
    OnlyDepartmentRole =>
        \A required \in DepartmentRoles :
            req.roles = {required} =>
                IF DepartmentRoleMeets(required, tenant.departmentRole)
                THEN stage = "next"
                ELSE /\ stage = "responded"
                     /\ res = Response(403, "Insufficient permissions")

\* C21 witness: a DEPARTMENT_MANAGER has passed a check for HUMAN_SUPPORT.
C21_Witness ==
    /\ OnlyDepartmentRole
    /\ req.roles = {UserRole.HUMAN_SUPPORT}
    /\ tenant.departmentRole = "DEPARTMENT_MANAGER"
    /\ tenant.workspaceRole # "ADMIN"
    /\ stage = "next"

\* The workspaceId the stated order selects from the request when no context
\* precedes it: route path parameter, then query parameter, then body.
StatedWorkspaceId(r) ==
    Or(r.workspaceId.params, Or(r.workspaceId.query, r.workspaceId.body))

\* C22: a workspaceId declared in several places of the request is taken from
\* the place of highest precedence in the order context, route path parameter,
\* query parameter, body: the id tenantMiddleware records is the one of that
\* order, and so is the id requireRole records when tenantMiddleware left none.
C22_SourcePrecedence ==
    (~req.user.isAppOwner /\ req.workspaceId.header = NULL) =>
        /\ (stage = "requireRole" /\ tenant.workspaceId # NULL) =>
                tenant.workspaceId = StatedWorkspaceId(req)
        /\ (stage = "next" /\ req.accountId = NULL /\ req.departmentId = NULL
                /\ tenant.workspaceId # NULL) =>
                tenant.workspaceId = StatedWorkspaceId(req)

\* C23: resolution never completes with an accountId, workspaceId or
\* departmentId of no existing row recorded in the tenant context: a request
\* that is handed on has only identifiers of existing rows in req.tenant.
C23_MissingIdRejected ==
    stage = "next" =>
        /\ tenant.accountId \in Accounts \cup {NULL}
        /\ tenant.workspaceId \in Workspaces \cup {NULL}
        /\ tenant.departmentId \in Departments \cup {NULL}

\* tenantMiddleware has run for a regular principal: it called next(), or it
\* answered the request itself (req.tenant is then never set).
TenantMiddlewareDone ==
    /\ ~req.user.isAppOwner
    /\ \/ stage = "requireRole"
       \/ stage = "responded" /\ tenant = None

\* The principal has no row at the declared account, at the declared workspace.
NoAccountMembership ==
    req.accountId \in Accounts /\ accountUser[req.accountId] = None

NoWorkspaceMembership ==
    /\ DeclaredWorkspaceId(req) \in Workspaces
    /\ workspaceUser[DeclaredWorkspaceId(req)] = None

\* tenantMiddleware answers a regular principal only for a workspace row that
\* exists in a workspace of another account than the declared one.
OnlyMismatchAborts ==
    res # None =>
        /\ res = Response(403, "Workspace does not belong to the specified account")
        /\ workspaceUser[DeclaredWorkspaceId(req)] # None

AssignAllowed(call) ==
    /\ verifyConversationChain(call.conversationId, call.workspaceId,
                               call.accountId).error = NULL
    /\ call.userId \in Users
    /\ ConversationWorkspace[call.conversationId] \in UserWorkspaces[call.userId]

\* An assignConversationToUser call that has finished changed the row exactly
\* when it succeeded, and it succeeded only with arguments that are allowed.
AssignOutcome ==
    \A p \in Procs :
        (calls[p].op = "assignConversationToUser" /\ calls[p].pc = "done") =>
            /\ calls[p].result = "ok" => AssignAllowed(calls[p])
            /\ calls[p].wrote <=> calls[p].result = "ok"

\* A step changes assignedUserId or assignedAt of a conversation only as the
\* update of an assignment call with allowed arguments, which sets the user of
\* the call, or as the update of an unassignment.
AssignStep ==
    \A c \in ConversationIds :
        (\/ conversation'[c].assignedUserId # conversation[c].assignedUserId
         \/ conversation'[c].assignedAt # conversation[c].assignedAt) =>
            \E p \in Procs :
                /\ calls[p].conversationId = c
                /\ calls'[p].wrote
                /\ \/ /\ calls[p].pc = "assignUpdate"
                      /\ AssignAllowed(calls[p])
                      /\ conversation'[c].assignedUserId = calls[p].userId
                   \/ /\ calls[p].pc = "unassignUpdate"
                      /\ conversation'[c].assignedUserId = NULL

\* C31: assignConversationToUser(c, u, ...) sets assignedUserId = u only if c
\* passes the conversation-workspace-account chain check, u exists and u has a
\* membership row in c's workspace; in every other case the call fails and
\* assignedUserId and assignedAt are unchanged.
C31_AssignOnlyVerifiedUser ==
    [](AssignOutcome) /\ [][AssignStep]_vars

\* C31 witness: one call has assigned the conversation to u1, and a call that
\* names a user of another workspace has failed without a write.
C31_Witness ==
    \E p, q \in Procs :
        /\ calls[p].op = "assignConversationToUser"
        /\ calls[p].pc = "done"
        /\ calls[p].result = "ok"
        /\ conversation[calls[p].conversationId].assignedUserId = "u1"
        /\ calls[q].op = "assignConversationToUser"
        /\ calls[q].pc = "done"
        /\ calls[q].userId = "u2"
        /\ calls[q].result = "User does not belong to this workspace"
        /\ ~calls[q].wrote

\* No assignment or unassignment is between its start and its return.
NoAssignmentInFlight ==
    \A p \in Procs :
        calls[p].op \in {"assignConversationToUser", "unassignConversation"} =>
            calls[p].pc = "done"

\* C32: after assignConversationToUser(c, u) has returned successfully,
\* canUserViewConversation(u, c) returns true and
\* getConversationVisibilityScope(c) reports USER_ASSIGNED with assignedUserId
\* = u, whatever lookups were made before: a lookup that found the conversation
\* assigned to u in the store, and that takes its answer from the cache while
\* no assignment is in flight, answers so.
C32_AccessFollowsAssignment ==
    [][\A p \in Procs :
        (/\ calls[p].pc = "accessCache"
         /\ calls'[p].pc = "done"
         /\ calls'[p].result = "ok"
         /\ NoAssignmentInFlight
         /\ calls[p].found.assignedUserId # NULL
         /\ conversation[calls[p].conversationId].assignedUserId
                = calls[p].found.assignedUserId) =>
            IF calls[p].op = "canUserViewConversation"
            THEN calls[p].userId = calls[p].found.assignedUserId
                    => calls'[p].value.flag
            ELSE /\ calls'[p].value.scope.visibilityType = "USER_ASSIGNED"
                 /\ calls'[p].value.scope.assignedUserId
                        = calls[p].found.assignedUserId]_vars

(* ======================== the inbox view claims ======================= *)

\* C33: getEscalatedInbox(user, workspace) returns a conversation only if its
\* status is ESCALATED and the user holds the HUMAN_SUPPORT role in the
\* department the conversation belongs to; a HUMAN_SUPPORT role in another
\* department of the same workspace does not make it visible.
C33_EscalatedOnlyOwnDepartment ==
    (inboxResult # None /\ inboxResult.op = "getEscalatedInbox") =>
        \A c \in inboxResult.conversations :
            /\ inboxConversations[c].status = "ESCALATED"
            /\ inboxConversations[c].departmentId \in InboxDepartments =>
                    InboxDepartmentUserRole(inboxResult.userId,
                        inboxConversations[c].departmentId) = "HUMAN_SUPPORT"

(* ==================== the state cache race claim ====================== *)

\* Exactly one getConversationState call and one setConversationState call
\* have been made, on the same conversation c, and both have finished.
OneGetOneSetDone(c) ==
    /\ nOps = 2
    /\ \E p, q \in Procs :
        /\ calls[p].op = "getConversationState"
        /\ calls[p].conversationId = c
        /\ calls[p].pc = "done"
        /\ calls[q].op = "setConversationState"
        /\ calls[q].conversationId = c
        /\ calls[q].pc = "done"

\* C34: for every interleaving of one getConversationState call and one
\* setConversationState call on the same conversation, once both have finished
\* the cache entry conversation_state:{id} is absent or holds the status that
\* is persisted.
C34_NoStaleEntryAfterRace ==
    \A c \in ConversationIds :
        (OneGetOneSetDone(c) /\ Live(<<"conversation_state", c>>)) =>
            cache[<<"conversation_state", c>>].value.status = conversation[c].status

(* ======================== the refresh token claim ===================== *)

\* C35: a stored refresh token is redeemed at most once: after one
\* refreshToken(t) call has succeeded every later call with t fails, and of two
\* concurrent calls with t at most one returns new tokens.
C35_RedeemedAtMostOnce ==
    \A t \in DOMAIN redeemed : redeemed[t] <= 1

(* ========================= the invitation claims ====================== *)

\* An accept call of process p creates the user of its invitation in this step.
CreatesUser(p) ==
    /\ icalls[p].pc = "createUser"
    /\ icalls'[p].pc = "activate"

\* C36: an invitation is accepted at most once; once its status is ACCEPTED or
\* EXPIRED the status never changes again and no accept call of it creates a
\* user, also when two accept calls with the same token overlap.
C36_TerminalStatusIsFinal ==
    [][\A i \in InvitationIds :
        invitations[i].status \in {"ACCEPTED", "EXPIRED"} =>
            /\ invitations'[i].status = invitations[i].status
            /\ \A p \in Procs : CreatesUser(p) => icalls[p].invitation.id # i]_vars

\* Some accept call of an invitation of account a has reached the activation
\* of memberships.
AcceptedFor(a) ==
    \E i \in InvitationIds :
        /\ invitations[i].accountId = a
        /\ \/ invitations[i].accepts > 0
           \/ \E p \in Procs : /\ icalls[p].pc \in {"activate", "accept"}
                               /\ icalls[p].invitation.id = i

\* C37: accepting an invitation activates only the INVITED membership rows of
\* that invitation's account: a membership with the same email in another
\* account keeps the status INVITED and gets no userId.
C37_OnlyOwnAccountActivated ==
    \A m \in memberships :
        (m.status # "INVITED" \/ m.userId # NULL) => AcceptedFor(m.accountId)

(* ===================== the find-or-create claim ======================= *)

\* The call of process p has ended and its workspace exists.
MessageCallEnded(p) ==
    /\ mcalls[p].pc = "done"
    /\ mcalls[p].workspaceId \in Workspaces

\* C38: after any interleaving of concurrent createInboundMessage (or
\* createMockMessage) calls for one workspace and one sender email there is
\* exactly one contact of that email, exactly one conversation of that
\* (workspaceId, contactId) pair, and every call's message is attached to it.
C38_OneContactOneConversation ==
    \A p \in Procs :
        MessageCallEnded(p) =>
            LET call == mcalls[p]
                rows == conversationsOf(call.workspaceId, newContactId(call.fromEmail))
            IN /\ Cardinality({c \in contacts : c.email = call.fromEmail}) = 1
               /\ Cardinality(rows) = 1
               /\ \E m \in messageRows :
                    /\ m.id = call.message
                    /\ \A c \in rows : m.conversationId = c.id

====
